---- MODULE Spec2Model ----
(***************************************************************************)
(* Database change tracking of the Spine database editor: SpineDBWorker    *)
(* (spinetoolbox/spine_db_worker.py), the per-connection item cache and    *)
(* undo stacks of SpineDBManager, and the undo commands that drive the     *)
(* worker.  A db_map is one open connection.                               *)
(***************************************************************************)
EXTENDS Integers, Sequences, FiniteSets, TLC

(* ------------------------------ bounds -------------------------------- *)
\* largest id the store hands out per (db_map, item type)
MaxId == 2
\* largest number of commands kept over all undo stacks
MaxCmds == 2
\* item values range over 1..MaxVal
MaxVal == 2
\* largest number of operations in a run
MaxSteps == 4
\* largest number of failing store or resolver calls in a run
MaxFaults == 1
\* largest number of failing store or resolver calls in a run of imports alone
MaxImportFaults == 2

DbMaps == {"A", "B"}
\* parents first: an object references its class, a parameter_value its object
ItemTypes == <<"object_class", "object", "parameter_value", "scenario", "scenario_alternative">>
TypeSet == {ItemTypes[i] : i \in 1..Len(ItemTypes)}
\* the types the editor adds, updates and removes item by item
EditTypes == TypeSet \ {"scenario", "scenario_alternative"}
Ids == 1..MaxId
Vals == 1..MaxVal

Parent(t) ==
  CASE t = "object" -> "object_class"
    [] t = "parameter_value" -> "object"
    [] OTHER -> "none"

Min(S) == CHOOSE x \in S : \A y \in S : x <= y

\* the keys of a db_map_data dict in iteration order: one db_map, or both
Batches ==
  {<<d>> : d \in DbMaps} \cup {<<"A", "B">>}

Range(s) == {s[i] : i \in 1..Len(s)}

(* ------------------- the store (DiffDatabaseMapping) ------------------ *)
\* A table row; ref is the id of the referenced parent row (0 for a class).
Row(i, r, v) == [id |-> i, ref |-> r, val |-> v]

EmptyTables == [t \in TypeSet |-> {}]

NoIds == [t \in TypeSet |-> {}]

RowValid(tables, t, row) ==
  Parent(t) = "none" \/ \E p \in tables[Parent(t)] : p.id = row.ref

FreeIds(tables, t) == Ids \ {r.id : r \in tables[t]}

RECURSIVE AssignIds(_, _)
AssignIds(rows, free) ==
  IF rows = {} \/ free = {} THEN {}
  ELSE LET r == CHOOSE x \in rows : TRUE
           i == Min(free)
       IN {[r EXCEPT !.id = i]} \cup AssignIds(rows \ {r}, free \ {i})

\* db_map.add_<items>(*items, check, return_items=True, cache): (items, errors).
\* The valid rows get ids and are written, the others are rejected.  Without
\* check no diagnostics are returned.
StoreAdd(tables, t, rows, check, outcome) ==
  LET valid == IF outcome = "apply" THEN {r \in rows : RowValid(tables, t, r)} ELSE {}
      added == AssignIds(valid, FreeIds(tables, t))
  IN [tables |-> [tables EXCEPT ![t] = @ \cup added],
      items |-> added,
      errors |-> IF check THEN rows \ valid ELSE {}]

\* db_map.update_<items>(*items, check, return_items=True, cache): only val
\* changes; a row whose id is not in the table is rejected.
StoreUpdate(tables, t, rows, check, outcome) ==
  LET valid == IF outcome = "apply"
               THEN {r \in rows : \E o \in tables[t] : o.id = r.id} ELSE {}
      new == {[(CHOOSE o \in tables[t] : o.id = r.id) EXCEPT !.val = r.val] : r \in valid}
  IN [tables |-> [tables EXCEPT ![t] = {o \in @ : o.id \notin {n.id : n \in new}} \cup new],
      items |-> new,
      errors |-> IF check THEN rows \ valid ELSE {}]

StoreAddOrUpdate(method_name, tables, t, rows, check, outcome) ==
  IF method_name = "add_items" THEN StoreAdd(tables, t, rows, check, outcome)
  ELSE StoreUpdate(tables, t, rows, check, outcome)

\* db_map.add_<items>(*items, readd=True): the rows go back with their ids.
StoreReadd(tables, t, rows) == [tables EXCEPT ![t] = @ \cup rows]

\* a row with one of these ids is already in the table
ReaddConflict(tables, t, rows) == \E r \in rows : \E o \in tables[t] : o.id = r.id

\* db_map.cascading_ids(**ids_per_type): the seeds and every row that
\* references, directly or not, a row of the closure.
RECURSIVE CascadeFrom(_, _, _, _)
CascadeFrom(tables, seeds, i, acc) ==
  IF i > Len(ItemTypes) THEN acc
  ELSE LET t == ItemTypes[i]
           inherited == IF Parent(t) = "none" THEN {}
                        ELSE {r.id : r \in {x \in tables[t] : x.ref \in acc[Parent(t)]}}
       IN CascadeFrom(tables, seeds, i + 1, [acc EXCEPT ![t] = seeds[t] \cup inherited])

cascading_ids(tables, seeds) == CascadeFrom(tables, seeds, 1, NoIds)

\* db_map.remove_items(**ids_per_type)
StoreRemove(tables, ids_per_type) ==
  [t \in TypeSet |-> {r \in tables[t] : r.id \notin ids_per_type[t]}]

(* ------------------------- the cache (manager) ------------------------ *)
\* SpineDBManager.db_to_cache: the cache entry of a table row
CacheItem(t, row) == [type |-> t, id |-> row.id, ref |-> row.ref, val |-> row.val]

\* db_map.cache_to_db: the table row of a cache entry
cache_to_db(item) == Row(item.id, item.ref, item.val)

\* SpineDBManager.get_db_map_cache: the db_map's cache, created when missing
get_db_map_cache(cache, db) == IF db \in DOMAIN cache THEN cache ELSE cache @@ (db :> {})

\* put: upsert by (type, id)
PutItems(cached, items) ==
  {c \in cached : ~\E n \in items : n.type = c.type /\ n.id = c.id} \cup items

\* SpineDBManager.db_to_cache over the applied rows of one db_map
db_to_cache(cache, db, t, rows) ==
  LET c == get_db_map_cache(cache, db)
  IN [c EXCEPT ![db] = PutItems(@, {CacheItem(t, r) : r \in rows})]

CachedOf(cache, db) == IF db \in DOMAIN cache THEN cache[db] ELSE {}

\* the cached items named by typed ids
Popped(cache, db, ids_per_type) == {c \in CachedOf(cache, db) : c.id \in ids_per_type[c.type]}

\* SpineDBManager.uncache_items: evicts the typed ids of every db_map
uncache_items(cache, db_map_typed_ids) ==
  [db \in DOMAIN cache |->
     IF db \in DOMAIN db_map_typed_ids
     THEN cache[db] \ Popped(cache, db, db_map_typed_ids[db])
     ELSE cache[db]]

(* ----------------------------- signals -------------------------------- *)
\* one emission of a SpineDBManager signal: the item signals carry data,
\* {db_map: items}; error_msg carries the error log {db_map: messages} (here
\* the number of messages); session_committed and session_rolled_back carry
\* a set of db_maps
Signal(name, t, data, dbs, log) ==
  [sig |-> name, type |-> t, data |-> data, db_maps |-> dbs, log |-> log]

NoLog == [db \in {} |-> 0]

NoData == [db \in {} |-> {}]

ItemSignal(name, t, data) == Signal(name, t, data, DOMAIN data, NoLog)

SessionSignal(name, dbs) == Signal(name, "none", NoData, dbs, NoLog)

\* any(db_map_error_log.values())
AnyErrors(log) == \E db \in DOMAIN log : log[db] > 0

ErrorMsg(log) == Signal("error_msg", "none", NoData, {}, log)

\* db_map_error_log[db_map] = n
SetLog(log, db, n) == [d \in DOMAIN log \cup {db} |-> IF d = db THEN n ELSE log[d]]

\* db_map_error_log.setdefault(db_map, []).extend(n messages)
ExtendLog(log, db, n) ==
  [d \in DOMAIN log \cup {db} |->
     IF d = db THEN (IF db \in DOMAIN log THEN log[db] ELSE 0) + n ELSE log[d]]

(* ----------------------- the worker's handlers ------------------------ *)
\* A world w is the state the handlers act on: store and committed (the
\* store's pending and committed tables per db_map), cache, undo_stack,
\* emitted (the signals emitted so far by the running operation) and raised
\* (an exception left a handler).

\* F of the value of x: x is computed once, as a statement's result is
With(x, F(_)) == CHOOSE y \in {F(v) : v \in {x}} : TRUE

Raise(w) == [w EXCEPT !.raised = TRUE]

Emit(w, s) == [w EXCEPT !.emitted = Append(@, s)]

\* SpineDBWorker._add_or_update_items, the loop body and what follows it.
\* entries: the db_map_data items, a sequence of [db, rows]; oc: the store's
\* answer per db_map.
RECURSIVE add_or_update_loop(_, _, _, _, _, _, _, _)
add_or_update_loop(w, entries, method_name, item_type, check, signal_name, oc, log) ==
  IF entries = <<>>
  THEN IF AnyErrors(log) THEN Emit(w, ErrorMsg(log)) ELSE w
  ELSE LET db == Head(entries).db
           w0 == [w EXCEPT !.cache = get_db_map_cache(w.cache, db)]
       IN IF oc[db] = "raise" THEN Raise(w0)
          ELSE With(StoreAddOrUpdate(method_name, w0.store[db], item_type,
                                     Head(entries).rows, check, oc[db]),
                    LAMBDA res :
                      LET log1 == IF res.errors # {}
                                  THEN SetLog(log, db, Cardinality(res.errors)) ELSE log
                          w1 == [w0 EXCEPT !.store[db] = res.tables]
                          items == {CacheItem(item_type, r) : r \in res.items}
                      IN With(IF res.items = {} THEN w1
                              ELSE Emit([w1 EXCEPT !.cache = db_to_cache(w1.cache, db, item_type,
                                                                         res.items)],
                                        ItemSignal(signal_name, item_type, (db :> items))),
                              LAMBDA w2 :
                                add_or_update_loop(w2, Tail(entries), method_name, item_type,
                                                   check, signal_name, oc, log1)))

\* variant: the rows as they were handed in go to the cache of the first db_map
add_or_update_caching_request(w, entries, method_name, item_type, check, signal_name, oc) ==
  With(add_or_update_loop(w, entries, method_name, item_type, check, signal_name, oc, NoLog),
       LAMBDA w1 :
         IF w1.raised \/ entries = <<>> THEN w1
         ELSE [w1 EXCEPT !.cache = db_to_cache(w1.cache, entries[1].db, item_type,
                                               entries[1].rows)])

\* variant: the first db_map whose rows bring errors ends the loop
add_or_update_until_error(w, entries, method_name, item_type, check, signal_name, oc) ==
  LET bad == {i \in 1..Len(entries) :
                StoreAddOrUpdate(method_name, w.store[entries[i].db], item_type,
                                 entries[i].rows, check, "apply").errors # {}}
  IN add_or_update_loop(w, IF bad = {} THEN entries ELSE SubSeq(entries, 1, Min(bad)),
                        method_name, item_type, check, signal_name, oc, NoLog)

\* variant: one dict gathers the items of the db_maps done so far and is
\* emitted again for every db_map
add_or_update_emitting_all(w, entries, method_name, item_type, check, signal_name, oc) ==
  With(add_or_update_loop(w, entries, method_name, item_type, check, signal_name, oc, NoLog),
       LAMBDA w1 :
         LET em == w1.emitted
             mine(i) == {j \in 1..i : em[j].sig = signal_name /\ em[j].type = item_type}
         IN [w1 EXCEPT !.emitted =
               [i \in 1..Len(em) |->
                  IF i \in mine(i)
                  THEN ItemSignal(signal_name, item_type,
                                  [db \in UNION {em[j].db_maps : j \in mine(i)} |->
                                     em[CHOOSE j \in mine(i) : db \in em[j].db_maps].data[db]])
                  ELSE em[i]]])

_add_or_update_items(w, entries, method_name, item_type, check, signal_name, oc) ==
  add_or_update_loop(w, entries, method_name, item_type, check, signal_name, oc, NoLog)

\* SpineDBWorker._readd_items
RECURSIVE _readd_items(_, _, _, _, _)
_readd_items(w, entries, item_type, signal_name, oc) ==
  IF entries = <<>> THEN w
  ELSE LET db == Head(entries).db
           rows == Head(entries).rows
       IN IF oc[db] = "raise" \/ ReaddConflict(w.store[db], item_type, rows) THEN Raise(w)
          ELSE LET items == {CacheItem(item_type, r) : r \in rows}
               IN With(Emit([w EXCEPT !.store[db] = StoreReadd(@, item_type, rows),
                                      !.cache = db_to_cache(w.cache, db, item_type, rows)],
                            ItemSignal(signal_name, item_type, (db :> items))),
                       LAMBDA w1 : _readd_items(w1, Tail(entries), item_type, signal_name, oc))

\* variant: the typed ids as they were handed in
SeedTypedIds(w, db_map_typed_ids) == db_map_typed_ids

\* lines 193-195: the typed ids of every db_map with their cascade
CascadingTypedIds(w, db_map_typed_ids) ==
  [db \in DOMAIN db_map_typed_ids |-> cascading_ids(w.store[db], db_map_typed_ids[db])]

\* lines 197-202: the store removes the typed ids, db_map by db_map
RECURSIVE remove_loop(_, _, _, _, _)
remove_loop(w, dbs, typed, oc, log) ==
  IF dbs = <<>> THEN [w |-> w, log |-> log]
  ELSE LET db == Head(dbs)
       IN IF oc[db] = "raise"
          THEN remove_loop(w, Tail(dbs), typed, oc, SetLog(log, db, 1))
          ELSE With([w EXCEPT !.store[db] = StoreRemove(@, typed[db])],
                    LAMBDA w1 : remove_loop(w1, Tail(dbs), typed, oc, log))

\* the removed-items signal of SpineDBManager.uncache_items
RemovedSignals(w, dbs, typed) ==
  LET hit == {db \in Range(dbs) : Popped(w.cache, db, typed[db]) # {}}
  IN IF hit = {} THEN <<>>
     ELSE <<ItemSignal("removed", "none", [db \in hit |-> Popped(w.cache, db, typed[db])])>>

\* SpineDBWorker._remove_items; dbs: the keys of db_map_typed_ids in order
_remove_items(w, dbs, db_map_typed_ids, oc) ==
  With(CascadingTypedIds(w, db_map_typed_ids), LAMBDA typed :
    With(remove_loop(w, dbs, typed, oc, NoLog), LAMBDA r :
      With(IF AnyErrors(r.log) THEN Emit(r.w, ErrorMsg(r.log)) ELSE r.w, LAMBDA w1 :
        [w1 EXCEPT !.emitted = @ \o RemovedSignals(w1, dbs, typed),
                   !.cache = uncache_items(w1.cache, typed)])))

\* QUndoStack.setClean
setClean(stk) == [stk EXCEPT !.clean_index = stk.index]

\* QUndoStack.clear
clear(stk) == [cmds |-> <<>>, index |-> 0, clean_index |-> 0]

\* QUndoStack.isClean
isClean(stk) == stk.clean_index = stk.index

\* SpineDBWorker._commit_session
RECURSIVE commit_loop(_, _, _, _, _)
commit_loop(w, dirty_db_maps, oc, log, committed_db_maps) ==
  IF dirty_db_maps = <<>>
  THEN LET w1 == IF AnyErrors(log) THEN Emit(w, ErrorMsg(log)) ELSE w
       IN IF committed_db_maps # {}
          THEN Emit(w1, SessionSignal("session_committed", committed_db_maps))
          ELSE w1
  ELSE LET db == Head(dirty_db_maps)
       IN IF oc[db] = "raise"
          THEN commit_loop(w, Tail(dirty_db_maps), oc, SetLog(log, db, 1), committed_db_maps)
          ELSE With([w EXCEPT !.committed[db] = w.store[db],
                              !.undo_stack[db] = setClean(@)],
                    LAMBDA w1 : commit_loop(w1, Tail(dirty_db_maps), oc, log,
                                            committed_db_maps \cup {db}))

\* variant: the commits reach the store and the stacks are left as they are
commit_store_only(w, dirty_db_maps, oc) ==
  LET done == {db \in Range(dirty_db_maps) : oc[db] = "apply"}
      log == [db \in Range(dirty_db_maps) \ done |-> 1]
      w1 == [w EXCEPT !.committed = [db \in DOMAIN @ |-> IF db \in done THEN w.store[db]
                                                          ELSE @[db]]]
  IN commit_loop(w1, <<>>, oc, log, done)

\* variant: the first failing commit ends the loop
commit_until_failure(w, dirty_db_maps, oc) ==
  LET bad == {i \in 1..Len(dirty_db_maps) : oc[dirty_db_maps[i]] # "apply"}
  IN IF bad = {} THEN commit_loop(w, dirty_db_maps, oc, NoLog, {})
     ELSE commit_loop(w, SubSeq(dirty_db_maps, 1, Min(bad)), oc, NoLog, {})

_commit_session(w, dirty_db_maps, oc) == commit_loop(w, dirty_db_maps, oc, NoLog, {})

\* del self._db_mngr._cache[db_map]
DelCache(cache, db) == [d \in DOMAIN cache \ {db} |-> cache[d]]

\* SpineDBWorker._rollback_session
RECURSIVE rollback_loop(_, _, _, _, _)
rollback_loop(w, dirty_db_maps, oc, log, rolled_db_maps) ==
  IF dirty_db_maps = <<>>
  THEN LET w1 == IF AnyErrors(log) THEN Emit(w, ErrorMsg(log)) ELSE w
       IN IF rolled_db_maps # {}
          THEN Emit(w1, SessionSignal("session_rolled_back", rolled_db_maps))
          ELSE w1
  ELSE LET db == Head(dirty_db_maps)
       IN IF oc[db] = "raise"
          THEN rollback_loop(w, Tail(dirty_db_maps), oc, SetLog(log, db, 1), rolled_db_maps)
          ELSE LET w1 == [w EXCEPT !.store[db] = w.committed[db],
                                   !.undo_stack[db] = clear(@)]
               IN IF db \notin DOMAIN w.cache THEN Raise(w1)
                  ELSE With([w1 EXCEPT !.cache = DelCache(@, db)],
                            LAMBDA w2 : rollback_loop(w2, Tail(dirty_db_maps), oc, log,
                                                      rolled_db_maps \cup {db}))

\* variant: the rollbacks reach the store, the stacks and the cache stay
rollback_store_only(w, dirty_db_maps, oc) ==
  LET done == {db \in Range(dirty_db_maps) : oc[db] = "apply"}
      log == [db \in Range(dirty_db_maps) \ done |-> 1]
      w1 == [w EXCEPT !.store = [db \in DOMAIN @ |-> IF db \in done THEN w.committed[db]
                                                      ELSE @[db]]]
  IN rollback_loop(w1, <<>>, oc, log, done)

\* variant: stacks and cache are cleared, the store keeps its uncommitted rows
rollback_cache_only(w, dirty_db_maps, oc) ==
  With(rollback_loop(w, dirty_db_maps, oc, NoLog, {}),
       LAMBDA w1 : [w1 EXCEPT !.store = w.store])

_rollback_session(w, dirty_db_maps, oc) == rollback_loop(w, dirty_db_maps, oc, NoLog, {})

(* ------------------------- the undo commands -------------------------- *)
\* A command of one db_map: kind "add", "update", "remove" or "macro"; items
\* is the redo payload, undo_items the snapshots the undo writes back, ids
\* the typed ids a removal takes.
Command(kind, t, items, undo_items, ids, check) ==
  [kind |-> kind, type |-> t, items |-> items, undo_items |-> undo_items, ids |-> ids,
   check |-> check, readd |-> FALSE, obsolete |-> FALSE, children |-> <<>>]

\* AgedUndoCommand(): a macro without children
Macro == Command("macro", "none", {}, {}, NoIds, FALSE)

AddItemsCommand(rows, t, check) ==
  Command("add", t, {CacheItem(t, r) : r \in rows}, {}, NoIds, check)

\* the pre-update snapshots come from the cache as it is at construction
UpdateItemsCommand(cached, rows, t, check) ==
  Command("update", t, {CacheItem(t, r) : r \in rows},
          {c \in cached : c.type = t /\ c.id \in {r.id : r \in rows}}, NoIds, check)

RemoveItemsCommand(ids_per_type) == Command("remove", "none", {}, {}, ids_per_type, FALSE)

TypedIds(t, ids) == [NoIds EXCEPT ![t] = ids]

RowsOf(items) == {cache_to_db(i) : i \in items}

Entry(db, rows) == <<[db |-> db, rows |-> rows]>>

\* the signals a handler call added to the world
NewSignals(w0, w1) == SubSeq(w1.emitted, Len(w0.emitted) + 1, Len(w1.emitted))

\* the items the completion signal of kind name carries for db ({} if the
\* signal did not come)
Completed(sigs, name, db) ==
  UNION {sigs[i].data[db] : i \in {j \in 1..Len(sigs) : sigs[j].sig = name /\ db \in sigs[j].db_maps}}

\* receive_items_changed: the command keeps what was written; a command whose
\* redo changed nothing is obsolete
Received(cmd, sigs, db) ==
  LET name == CASE cmd.kind = "add" -> "added"
                [] cmd.kind = "update" -> "updated"
                [] OTHER -> "removed"
      got == Completed(sigs, name, db)
  IN IF got = {} THEN [cmd EXCEPT !.obsolete = TRUE]
     ELSE CASE cmd.kind = "add" ->
                 [cmd EXCEPT !.items = got, !.ids = TypedIds(cmd.type, {i.id : i \in got})]
            [] cmd.kind = "update" -> [cmd EXCEPT !.items = got]
            [] OTHER -> [cmd EXCEPT !.undo_items = got]

\* the worker call a command's redo makes
RedoCall(w, db, cmd, oc) ==
  CASE cmd.kind = "add" /\ ~cmd.readd ->
         _add_or_update_items(w, Entry(db, RowsOf(cmd.items)), "add_items", cmd.type,
                              cmd.check, "added", oc)
    [] cmd.kind = "add" /\ cmd.readd ->
         _readd_items(w, Entry(db, RowsOf(cmd.items)), cmd.type, "added", oc)
    [] cmd.kind = "update" ->
         _add_or_update_items(w, Entry(db, RowsOf(cmd.items)), "update_items", cmd.type,
                              cmd.check, "updated", oc)
    [] OTHER -> _remove_items(w, <<db>>, (db :> cmd.ids), oc)

\* redo of an add, update or remove command
LeafRedo(w, db, cmd, oc) ==
  IF cmd.obsolete THEN [w |-> w, cmd |-> cmd]
  ELSE With(RedoCall(w, db, cmd, oc),
            LAMBDA w1 : [w |-> w1, cmd |-> Received(cmd, NewSignals(w, w1), db)])

\* undo of a removal: the snapshots go back type by type, parents first
RECURSIVE ReaddSnapshots(_, _, _, _, _)
ReaddSnapshots(w, db, items, i, oc) ==
  IF i > Len(ItemTypes) THEN w
  ELSE LET rows == RowsOf({x \in items : x.type = ItemTypes[i]})
       IN With(IF rows = {} THEN w
               ELSE _readd_items(w, Entry(db, rows), ItemTypes[i], "added", oc),
               LAMBDA w1 : ReaddSnapshots(w1, db, items, i + 1, oc))

\* undo of an add, update or remove command
LeafUndo(w, db, cmd, oc) ==
  IF cmd.obsolete THEN [w |-> w, cmd |-> cmd]
  ELSE CASE cmd.kind = "add" ->
              [w |-> _remove_items(w, <<db>>, (db :> cmd.ids), oc),
               cmd |-> [cmd EXCEPT !.readd = TRUE]]
         [] cmd.kind = "update" ->
              [w |-> _add_or_update_items(w, Entry(db, RowsOf(cmd.undo_items)), "update_items",
                                          cmd.type, cmd.check, "updated", oc),
               cmd |-> cmd]
         [] OTHER -> [w |-> ReaddSnapshots(w, db, cmd.undo_items, 1, oc), cmd |-> cmd]

\* QUndoCommand.redo of a macro: the children in insertion order
RECURSIVE ChildrenRedo(_, _, _, _, _)
ChildrenRedo(w, db, children, i, oc) ==
  IF i > Len(children) THEN [w |-> w, children |-> children]
  ELSE With(LeafRedo(w, db, children[i], oc),
            LAMBDA r : ChildrenRedo(r.w, db, [children EXCEPT ![i] = r.cmd], i + 1, oc))

\* QUndoCommand.undo of a macro: the children in reverse order
RECURSIVE ChildrenUndo(_, _, _, _, _)
ChildrenUndo(w, db, children, i, oc) ==
  IF i < 1 THEN [w |-> w, children |-> children]
  ELSE With(LeafUndo(w, db, children[i], oc),
            LAMBDA r : ChildrenUndo(r.w, db, [children EXCEPT ![i] = r.cmd], i - 1, oc))

CmdRedo(w, db, cmd, oc) ==
  IF cmd.kind = "macro"
  THEN With(ChildrenRedo(w, db, cmd.children, 1, oc),
            LAMBDA r : [w |-> r.w, cmd |-> [cmd EXCEPT !.children = r.children]])
  ELSE LeafRedo(w, db, cmd, oc)

CmdUndo(w, db, cmd, oc) ==
  IF cmd.kind = "macro"
  THEN With(ChildrenUndo(w, db, cmd.children, Len(cmd.children), oc),
            LAMBDA r : [w |-> r.w, cmd |-> [cmd EXCEPT !.children = r.children]])
  ELSE LeafUndo(w, db, cmd, oc)

(* --------------------------- the undo stack --------------------------- *)
EmptyStack == [cmds |-> <<>>, index |-> 0, clean_index |-> 0]

RemoveAt(seq, i) == SubSeq(seq, 1, i - 1) \o SubSeq(seq, i + 1, Len(seq))

\* variant: the command goes in at the position and the commands after it stay
push_keeping_tail(stk, cmd) ==
  IF cmd.obsolete THEN stk
  ELSE [stk EXCEPT !.cmds = SubSeq(stk.cmds, 1, stk.index) \o <<cmd>>
                            \o SubSeq(stk.cmds, stk.index + 1, Len(stk.cmds)),
                   !.index = stk.index + 1]

\* variant: the push takes the clean state along to the new position
push_marking_clean(stk, cmd) ==
  IF cmd.obsolete THEN stk
  ELSE [cmds |-> Append(SubSeq(stk.cmds, 1, stk.index), cmd), index |-> stk.index + 1,
        clean_index |-> IF stk.clean_index = stk.index THEN stk.index + 1
                        ELSE stk.clean_index]

\* QUndoStack.push of a command that has run: the commands after the
\* position go, and with them the clean state if it was among them; an
\* obsolete command is dropped
push(stk, cmd) ==
  LET kept == SubSeq(stk.cmds, 1, stk.index)
      clean == IF stk.clean_index > stk.index THEN -1 ELSE stk.clean_index
  IN IF cmd.obsolete THEN [cmds |-> kept, index |-> stk.index, clean_index |-> clean]
     ELSE [cmds |-> Append(kept, cmd), index |-> stk.index + 1, clean_index |-> clean]

canUndo(stk) == stk.index > 0

canRedo(stk) == stk.index < Len(stk.cmds)

\* what the stack does with the command at idx once it has run
Settle(r, db, idx, index) ==
  LET stk1 == r.w.undo_stack[db]
  IN IF r.cmd.obsolete
     THEN [r.w EXCEPT !.undo_stack[db] =
             [cmds |-> RemoveAt(stk1.cmds, idx), index |-> idx - 1,
              clean_index |-> IF stk1.clean_index > idx - 1 THEN -1 ELSE stk1.clean_index]]
     ELSE [r.w EXCEPT !.undo_stack[db] = [stk1 EXCEPT !.cmds[idx] = r.cmd, !.index = index]]

\* QUndoStack.undo: an obsolete command is not undone but deleted
StackUndo(w, db, oc) ==
  LET stk == w.undo_stack[db]
      idx == stk.index
  IN With(IF stk.cmds[idx].obsolete THEN [w |-> w, cmd |-> stk.cmds[idx]]
          ELSE CmdUndo(w, db, stk.cmds[idx], oc),
          LAMBDA r : Settle(r, db, idx, idx - 1))

\* QUndoStack.redo: a command that turns obsolete is deleted
StackRedo(w, db, oc) ==
  LET stk == w.undo_stack[db]
      idx == stk.index + 1
  IN With(IF stk.cmds[idx].obsolete THEN [w |-> w, cmd |-> stk.cmds[idx]]
          ELSE CmdRedo(w, db, stk.cmds[idx], oc),
          LAMBDA r : Settle(r, db, idx, idx))

(* ------------------ the worker's macro operations --------------------- *)
\* the macro is the command at the position of db's stack
TopMacro(w, db) == w.undo_stack[db].cmds[w.undo_stack[db].index]

\* a command constructed with parent=macro joins the macro's children
AttachChild(w, db, cmd) ==
  [w EXCEPT !.undo_stack[db].cmds[w.undo_stack[db].index].children = Append(@, cmd)]

\* variant: the child's redo() runs when the child is made and once more when
\* it has joined the macro
RunChildTwice(w, db, cmd, oc) ==
  With(LeafRedo(w, db, cmd, oc), LAMBDA r :
    With(LeafRedo(r.w, db, r.cmd, oc), LAMBDA r2 : AttachChild(r2.w, db, r2.cmd)))

\* a child command is made, run by its redo() and kept among the children
RunChild(w, db, cmd, oc) ==
  With(LeafRedo(w, db, cmd, oc), LAMBDA r : AttachChild(r.w, db, r.cmd))

AllObsolete(children) == \A i \in 1..Len(children) : children[i].obsolete

\* lines 275-278, 416-418: a macro whose children are all obsolete is set
\* obsolete and taken off the stack by undo()
DropIfObsolete(w, db, oc) ==
  LET children == TopMacro(w, db).children
  IN IF children # <<>> /\ AllObsolete(children)
     THEN StackUndo([w EXCEPT !.undo_stack[db].cmds[w.undo_stack[db].index].obsolete = TRUE],
                    db, oc)
     ELSE w

\* one (item_type, (to_add, to_update, import_error_log)) of the resolver
ImportEntry(t, to_add, to_update, errors) ==
  [type |-> t, to_add |-> to_add, to_update |-> to_update, errors |-> errors]

\* variant: the updates of an entry are made before its additions
RECURSIVE import_children_updates_first(_, _, _, _, _)
import_children_updates_first(w, db, data_for_import, i, oc) ==
  IF i > Len(data_for_import) THEN w
  ELSE LET e == data_for_import[i]
       IN With(IF e.to_update = {} THEN w
               ELSE RunChild(w, db,
                             UpdateItemsCommand(CachedOf(w.cache, db), e.to_update,
                                                e.type, FALSE),
                             oc),
               LAMBDA w1 :
                 With(IF e.to_add = {} THEN w1
                      ELSE RunChild(w1, db, AddItemsCommand(e.to_add, e.type, FALSE), oc),
                      LAMBDA w2 :
                        import_children_updates_first(w2, db, data_for_import, i + 1, oc)))

\* lines 265-274: the children of one db_map's import, entry by entry
RECURSIVE import_children(_, _, _, _, _)
import_children(w, db, data_for_import, i, oc) ==
  IF i > Len(data_for_import) THEN w
  ELSE LET e == data_for_import[i]
       IN With(IF e.to_add = {} THEN w
               ELSE RunChild(w, db, AddItemsCommand(e.to_add, e.type, FALSE), oc),
               LAMBDA w1 :
                 With(IF e.to_update = {} THEN w1
                      ELSE RunChild(w1, db,
                                    UpdateItemsCommand(CachedOf(w1.cache, db), e.to_update,
                                                       e.type, FALSE),
                                    oc),
                      LAMBDA w2 : import_children(w2, db, data_for_import, i + 1, oc)))

RECURSIVE SumErrors(_, _)
SumErrors(data_for_import, i) ==
  IF i > Len(data_for_import) THEN 0
  ELSE data_for_import[i].errors + SumErrors(data_for_import, i + 1)

\* SpineDBWorker._import_data; entries: a sequence of [db, rows] where rows
\* is what get_data_for_import yields for the db_map's data; outcome "bad":
\* the resolver raises TypeError or ValueError
RECURSIVE import_loop(_, _, _, _)
import_loop(w, entries, oc, log) ==
  IF entries = <<>>
  THEN LET w1 == IF AnyErrors(log) THEN Emit(w, ErrorMsg(log)) ELSE w
       IN Emit(w1, SessionSignal("data_imported", {}))
  ELSE LET db == Head(entries).db
           data_for_import == Head(entries).rows
       IN IF oc[db] = "bad"
          THEN import_loop(w, Tail(entries), oc, ExtendLog(log, db, 1))
          ELSE LET log1 == IF data_for_import = <<>> THEN log
                           ELSE ExtendLog(log, db, SumErrors(data_for_import, 1))
               IN With([w EXCEPT !.undo_stack[db] = push(@, Macro)], LAMBDA w1 :
                    With(import_children(w1, db, data_for_import, 1, oc), LAMBDA w2 :
                      With(DropIfObsolete(w2, db, oc), LAMBDA w3 :
                        import_loop(w3, Tail(entries), oc, log1))))

\* variant: the first db_map whose data the resolver refuses ends the loop
import_until_bad(w, entries, oc) ==
  LET bad == {i \in 1..Len(entries) : oc[entries[i].db] = "bad"}
  IN import_loop(w, IF bad = {} THEN entries ELSE SubSeq(entries, 1, Min(bad)), oc, NoLog)

\* variant: data_imported is kept back when an error was reported
import_silent_on_error(w, entries, oc) ==
  With(import_loop(w, entries, oc, NoLog), LAMBDA w1 :
    IF \E i \in 1..Len(w1.emitted) : w1.emitted[i].sig = "error_msg"
    THEN [w1 EXCEPT !.emitted = SelectSeq(@, LAMBDA x : x.sig # "data_imported")]
    ELSE w1)

_import_data(w, entries, oc) == import_loop(w, entries, oc, NoLog)

\* SpineDBWorker._set_scenario_alternatives; entries: a sequence of
\* [db, rows] where rows is what get_data_to_set_scenario_alternatives
\* answers for the db_map's data: [items_to_add, ids_to_remove]
RECURSIVE _set_scenario_alternatives(_, _, _)
_set_scenario_alternatives(w, entries, oc) ==
  IF entries = <<>> THEN w
  ELSE LET db == Head(entries).db
           plan == Head(entries).rows
       IN With([w EXCEPT !.undo_stack[db] = push(@, Macro),
                         !.cache = get_db_map_cache(w.cache, db)], LAMBDA w1 :
            With(IF plan.ids_to_remove = {} THEN w1
                 ELSE RunChild(w1, db,
                               RemoveItemsCommand(TypedIds("scenario_alternative",
                                                           plan.ids_to_remove)),
                               oc), LAMBDA w2 :
              With(IF plan.items_to_add = {} THEN w2
                   ELSE RunChild(w2, db,
                                 AddItemsCommand(plan.items_to_add, "scenario_alternative", TRUE),
                                 oc), LAMBDA w3 :
                With(DropIfObsolete(w3, db, oc), LAMBDA w4 :
                  _set_scenario_alternatives(w4, Tail(entries), oc)))))

(* ------------------------------ the state ----------------------------- *)
VARIABLES
  store,       \* db_map -> the tables of the open session (committed and pending rows)
  committed,   \* db_map -> the tables as of the last commit
  cache,       \* SpineDBManager._cache: db_map -> the cached items; a db_map may have no entry
  undo_stack,  \* SpineDBManager.undo_stack: db_map -> [cmds, index, clean_index]
  lastOp,      \* the last operation: its name, its inputs, the signals it emitted, raised
  budget,      \* the operations the run may still make
  faults,      \* the failing store and resolver calls so far
  queue,       \* the events posted to the worker's thread and not yet taken up
  pc,          \* thread -> where the thread is in a call into the worker
  running,     \* thread -> the slots in progress on the thread
  connection,  \* db_map -> db_map.connection: its state and how often close() ran
  worker,      \* the fields of SpineDBWorker: _db_map, _db_map_args, _err
  returned,    \* what the last get_db_map call returned
  listeners,   \* listener -> the db_maps it is registered for
  received     \* the receive_ calls the last operation made on the listeners

data == <<store, committed, cache, undo_stack>>

threads == <<queue, pc, running, connection, worker, returned>>

vars == <<store, committed, cache, undo_stack, lastOp, budget, faults, queue, pc, running,
          connection, worker, returned, listeners, received>>

(* ----------------------- threads and listeners ------------------------ *)
\* the threads that call into the worker: the interactive thread and a
\* background one
Callers == {"gui", "bg"}

\* qApp.thread()
GuiThread == "gui"

\* db_mngr.worker_thread, where moveToThread puts the worker: a thread of its
\* own
WorkerThread == "worker"

Threads == Callers \cup {WorkerThread}

Idle == [at |-> "idle", url |-> "None", outcome |-> "None"]

\* db_map.connection
Connection(state, closes) == [state |-> state, closes |-> closes]

\* SpineDBWorker.__init__: the fields of a new worker
NewWorker == [_db_map |-> "None", _db_map_args |-> "None", _err |-> "None"]

NothingReturned == [db_map |-> "None", err |-> "None", url |-> "None", outcome |-> "None",
                    prev |-> "None"]

Listeners == {"l1", "l2"}

ItemSignals == {"added", "updated", "removed"}

\* receive_<item_type>_<added|updated|removed>(db_map_data) on listener l: the
\* data of the db_maps l is registered for
Receive(l, s, dbs) ==
  [listener |-> l, sig |-> s.sig, type |-> s.type,
   data |-> [db \in DOMAIN s.data \cap dbs |-> s.data[db]]]

\* variant: every item signal goes to every listener as it was emitted
NotifyAll(ls, emitted) ==
  [i \in 1..Len(emitted) |->
     {Receive(l, emitted[i], emitted[i].db_maps) :
        l \in {x \in DOMAIN ls : emitted[i].sig \in ItemSignals}}]

\* SpineDBManager: every item signal goes to the listeners registered for one
\* of its db_maps; the calls made, signal by signal
Notify(ls, emitted) ==
  [i \in 1..Len(emitted) |->
     {Receive(l, emitted[i], ls[l]) :
        l \in {x \in DOMAIN ls : /\ emitted[i].sig \in ItemSignals
                                 /\ ls[x] \cap emitted[i].db_maps # {}}}]

World ==
  [store |-> store, committed |-> committed, cache |-> cache, undo_stack |-> undo_stack,
   emitted |-> <<>>, raised |-> FALSE]

\* tail: the db_maps of the batch whose stack has undone commands as the
\* operation begins
Op(name, batch, oc, arg) ==
  [op |-> name, batch |-> batch, oc |-> oc, arg |-> arg,
   tail |-> {db \in Range(batch) : undo_stack[db].index < Len(undo_stack[db].cmds)}]

Failing(oc) == Cardinality({db \in DOMAIN oc : oc[db] # "apply"})

\* the operation has run, the run having room for limit failing calls: the
\* world becomes the state
DoneWithin(world, o, limit) ==
  /\ budget > 0
  /\ budget' = budget - 1
  /\ faults + Failing(o.oc) <= limit
  /\ faults' = faults + Failing(o.oc)
  /\ \E w \in {world} :
       /\ store' = w.store
       /\ committed' = w.committed
       /\ cache' = w.cache
       /\ undo_stack' = w.undo_stack
       /\ lastOp' = [op |-> o.op, batch |-> o.batch, oc |-> o.oc, arg |-> o.arg,
                     tail |-> o.tail, emitted |-> w.emitted, raised |-> w.raised]
       /\ received' = Notify(listeners, w.emitted)
  /\ UNCHANGED <<threads, listeners>>

Done(world, o) == DoneWithin(world, o, MaxFaults)

Init ==
  /\ store = [db \in DbMaps |-> EmptyTables]
  /\ committed = [db \in DbMaps |-> EmptyTables]
  /\ cache = NoData
  /\ undo_stack = [db \in DbMaps |-> EmptyStack]
  /\ lastOp = [op |-> "init", batch |-> <<>>, oc |-> NoData, arg |-> 0, tail |-> {},
               emitted |-> <<>>, raised |-> FALSE]
  /\ budget = MaxSteps
  /\ faults = 0
  /\ queue = <<>>
  /\ pc = [th \in Callers |-> Idle]
  /\ running = [th \in Threads |-> <<>>]
  /\ connection = [db \in DbMaps |-> Connection("open", 0)]
  /\ worker = NewWorker
  /\ returned = NothingReturned
  /\ listeners = [l \in Listeners |-> {}]
  /\ received = <<>>

RECURSIVE Sum(_, _)
Sum(f, S) == IF S = {} THEN 0 ELSE LET x == CHOOSE y \in S : TRUE IN f[x] + Sum(f, S \ {x})

\* the commands all stacks hold once one more is pushed on each stack of batch
Room(batch) ==
  Sum([db \in DbMaps |-> IF db \in Range(batch) THEN undo_stack[db].index + 1
                         ELSE Len(undo_stack[db].cmds)], DbMaps) <= MaxCmds

Entries(batch, rows) == [i \in 1..Len(batch) |-> [db |-> batch[i], rows |-> rows]]

\* SpineDBManager: every db_map of the batch gets its command, which keeps
\* what the signals brought (an obsolete command is dropped by push)
PushAll(world, batch, cmd) ==
  With(world, LAMBDA w :
    [w EXCEPT !.undo_stack =
       [db \in DbMaps |-> IF db \in Range(batch)
                          THEN push(w.undo_stack[db], Received(cmd[db], w.emitted, db))
                          ELSE w.undo_stack[db]]])

\* SpineDBManager.add_items: new rows of one type for the db_maps of a batch
AddItems ==
  \E batch \in Batches, t \in EditTypes :
    \E oc \in [Range(batch) -> {"apply", "raise"}] :
      LET rows == {Row(0, IF Parent(t) = "none" THEN 0 ELSE 1, 1)}
          w == _add_or_update_items(World, Entries(batch, rows), "add_items", t, TRUE, "added", oc)
      IN /\ Room(batch)
         /\ \A db \in Range(batch) : FreeIds(store[db], t) # {}
         /\ Done(PushAll(w, batch, [db \in Range(batch) |-> AddItemsCommand(rows, t, TRUE)]),
                 Op("add", batch, oc, t))

\* SpineDBManager.update_items: a new value for a cached item
UpdateItems ==
  \E batch \in Batches, t \in EditTypes, id \in Ids, v \in Vals :
    \E oc \in [Range(batch) -> {"apply", "raise"}] :
      LET rows == {Row(id, 0, v)}
          w == _add_or_update_items(World, Entries(batch, rows), "update_items", t, TRUE,
                                    "updated", oc)
      IN /\ Room(batch)
         /\ \A db \in Range(batch) :
              \E c \in CachedOf(cache, db) : c.type = t /\ c.id = id /\ c.val # v
         /\ Done(PushAll(w, batch,
                         [db \in Range(batch) |->
                            UpdateItemsCommand(CachedOf(cache, db), rows, t, TRUE)]),
                 Op("update", batch, oc, t))

\* SpineDBManager.remove_items: one id of one type in the db_maps of a batch
RemoveItems ==
  \E batch \in Batches, t \in EditTypes, id \in Ids :
    \E oc \in [Range(batch) -> {"apply", "raise"}] :
      LET ids == TypedIds(t, {id})
          w == _remove_items(World, batch, [db \in Range(batch) |-> ids], oc)
      IN /\ Room(batch)
         /\ Done(PushAll(w, batch, [db \in Range(batch) |-> RemoveItemsCommand(ids)]),
                 Op("remove", batch, oc, ids))

\* undo on the stack of one db_map
Undo ==
  \E db \in DbMaps : \E oc \in [{db} -> {"apply", "raise"}] :
    /\ canUndo(undo_stack[db])
    /\ Done(StackUndo(World, db, oc), Op("undo", <<db>>, oc, 0))

\* redo on the stack of one db_map
Redo ==
  \E db \in DbMaps : \E oc \in [{db} -> {"apply", "raise"}] :
    /\ canRedo(undo_stack[db])
    /\ Done(StackRedo(World, db, oc), Op("redo", <<db>>, oc, 0))

\* SpineDBManager.commit_session: the dirty db_maps go to the worker
CommitSession ==
  \E batch \in Batches : \E oc \in [Range(batch) -> {"apply", "raise"}] :
    /\ \A db \in Range(batch) : ~isClean(undo_stack[db])
    /\ Done(_commit_session(World, batch, oc), Op("commit", batch, oc, 0))

\* DiffDatabaseMapping: the rows of a db_map whose value in the store is not the committed one
Uncommitted(db) ==
  {<<t, r>> \in TypeSet \X UNION {store[db][t] : t \in TypeSet} :
     /\ r \in store[db][t]
     /\ \E c \in committed[db][t] : c.id = r.id /\ c.val # r.val}

\* SpineDBManager.rollback_session: the dirty db_maps go to the worker; the
\* operation is recorded with the db_maps that hold an uncommitted update
RollbackSession ==
  \E batch \in Batches : \E oc \in [Range(batch) -> {"apply", "raise"}] :
    /\ \A db \in Range(batch) : ~isClean(undo_stack[db])
    /\ Done(_rollback_session(World, batch, oc),
            Op("rollback", batch, oc, {db \in Range(batch) : Uncommitted(db) # {}}))

\* what the resolver answers in the runs explored
Diffs ==
  {<<>>,
   <<ImportEntry("object_class", {Row(0, 0, 1)}, {}, 0)>>,
   <<ImportEntry("object_class", {Row(0, 0, 1)}, {}, 0),
     ImportEntry("object", {Row(0, 1, 1)}, {}, 1),
     ImportEntry("parameter_value", {Row(0, 1, 1)}, {}, 0)>>,
   <<ImportEntry("object_class", {}, {Row(1, 0, MaxVal)}, 0)>>,
   <<ImportEntry("object", {Row(0, 1, 1)}, {Row(1, 1, MaxVal)}, 0)>>,
   <<ImportEntry("object_class", {}, {}, 1)>>}

\* SpineDBManager.import_data
ImportData ==
  \E batch \in Batches, diff \in Diffs :
    \E oc \in [Range(batch) -> {"apply", "raise", "bad"}] :
      /\ Room(batch)
      /\ \A db \in Range(batch) : \A i \in 1..Len(diff) :
           diff[i].to_add # {} => FreeIds(store[db], diff[i].type) # {}
      /\ Done(_import_data(World, Entries(batch, diff), oc), Op("import", batch, oc, diff))

\* what get_data_to_set_scenario_alternatives answers in the runs explored
Plans ==
  {[items_to_add |-> a, ids_to_remove |-> r] : a \in {{}, {Row(0, 0, 1)}}, r \in {{}, {1}}}

\* SpineDBManager.set_scenario_alternatives
SetScenarioAlternatives ==
  \E batch \in Batches, plan \in Plans :
    \E oc \in [Range(batch) -> {"apply", "raise"}] :
      /\ Room(batch)
      /\ \A db \in Range(batch) :
           plan.items_to_add # {} =>
             FreeIds(StoreRemove(store[db], TypedIds("scenario_alternative", plan.ids_to_remove)),
                     "scenario_alternative") # {}
      /\ Done(_set_scenario_alternatives(World, Entries(batch, plan), oc),
              Op("set_scenario_alternatives", batch, oc, plan))

\* variant: the fetched row enters the cache under an add command
FetchAsCommand ==
  \E db \in DbMaps, t \in TypeSet :
    \E r \in store[db][t] :
      /\ CacheItem(t, r) \notin CachedOf(cache, db)
      /\ Room(<<db>>)
      /\ Done([World EXCEPT !.cache = db_to_cache(cache, db, t, {r}),
                            !.undo_stack[db] =
                               push(@, [AddItemsCommand({r}, t, TRUE) EXCEPT
                                          !.ids = TypedIds(t, {r.id})])],
              Op("fetch", <<db>>, NoData, CacheItem(t, r)))

\* SpineDBManager.cache_items: a fetched row of the store enters the cache;
\* the operation is recorded with the item it cached
Fetch ==
  \E db \in DbMaps, t \in TypeSet :
    \E r \in store[db][t] :
      /\ CacheItem(t, r) \notin CachedOf(cache, db)
      /\ Done([World EXCEPT !.cache = db_to_cache(cache, db, t, {r})],
              Op("fetch", <<db>>, NoData, CacheItem(t, r)))

Next ==
  \/ AddItems
  \/ UpdateItems
  \/ RemoveItems
  \/ Undo
  \/ Redo
  \/ CommitSession
  \/ RollbackSession
  \/ ImportData
  \/ SetScenarioAlternatives
  \/ Fetch

Spec == Init /\ [][Next]_vars

(* ----------------------------- listeners ----------------------------- *)
\* a step of the manager that reaches no store: nothing is emitted
ManagerStep(name, l, db) ==
  /\ budget > 0
  /\ budget' = budget - 1
  /\ lastOp' = [op |-> name, batch |-> <<db>>, oc |-> NoData, arg |-> l, tail |-> {},
                emitted |-> <<>>, raised |-> FALSE]
  /\ received' = <<>>
  /\ UNCHANGED <<data, faults, threads>>

\* SpineDBManager.register_listener(listener, db_map)
register_listener ==
  \E l \in Listeners, db \in DbMaps :
    /\ db \notin listeners[l]
    /\ listeners' = [listeners EXCEPT ![l] = @ \cup {db}]
    /\ ManagerStep("register_listener", l, db)

\* SpineDBManager.unregister_listener(listener, db_map)
unregister_listener ==
  \E l \in Listeners, db \in DbMaps :
    /\ db \in listeners[l]
    /\ listeners' = [listeners EXCEPT ![l] = @ \ {db}]
    /\ ManagerStep("unregister_listener", l, db)

\* listeners come and go between the edits they are notified of
NextListeners ==
  \/ register_listener
  \/ unregister_listener
  \/ AddItems
  \/ UpdateItems
  \/ RemoveItems
  \/ Undo
  \/ Redo
  \/ ImportData

SpecListeners == Init /\ [][NextListeners]_vars

(* ------------------- imports with several failures -------------------- *)
\* SpineDBManager.import_data where the resolver and the store may each fail
\* in the same call
ImportDataFailing ==
  \E batch \in Batches, diff \in Diffs :
    \E oc \in [Range(batch) -> {"apply", "raise", "bad"}] :
      /\ Room(batch)
      /\ \A db \in Range(batch) : \A i \in 1..Len(diff) :
           diff[i].to_add # {} => FreeIds(store[db], diff[i].type) # {}
      /\ DoneWithin(_import_data(World, Entries(batch, diff), oc),
                    Op("import", batch, oc, diff), MaxImportFaults)

SpecImports == Init /\ [][ImportDataFailing]_vars

(* ------------------------- requests of many rows ---------------------- *)
\* the rows a request may hold: for an add, a row under the parent with id 1
\* and one under the parent with id 2; for an update, new values for the
\* rows with ids 1 and 2
RequestRows(method_name, t) ==
  IF method_name = "add_items"
  THEN {Row(0, IF Parent(t) = "none" THEN 0 ELSE i, i) : i \in 1..2}
  ELSE {Row(i, 0, MaxVal) : i \in 1..2}

\* SpineDBManager.add_items and update_items with one or two rows of one type
\* for the db_maps of a batch: the command's redo hands them to
\* _add_or_update_items
AddOrUpdateRows ==
  \E batch \in Batches, t \in EditTypes, method_name \in {"add_items", "update_items"} :
    \E rows \in SUBSET RequestRows(method_name, t) \ {{}} :
      \E oc \in [Range(batch) -> {"apply", "raise"}] :
        LET signal_name == IF method_name = "add_items" THEN "added" ELSE "updated"
            w == _add_or_update_items(World, Entries(batch, rows), method_name, t, TRUE,
                                      signal_name, oc)
        IN /\ Room(batch)
           /\ \A db \in Range(batch) :
                method_name = "add_items" =>
                  Cardinality(FreeIds(store[db], t)) >= Cardinality(rows)
           /\ Done(PushAll(w, batch,
                           [db \in Range(batch) |->
                              IF method_name = "add_items" THEN AddItemsCommand(rows, t, TRUE)
                              ELSE UpdateItemsCommand(CachedOf(cache, db), rows, t, TRUE)]),
                   Op(method_name, batch, oc, [type |-> t, rows |-> rows]))

SpecRows == Init /\ [][AddOrUpdateRows]_vars

(* ------------------------------- export ------------------------------- *)
\* file_filter: the destinations the export dialog offers, and one the worker
\* does not know
FileFilters == {"JSON", "SQLite", "Excel", "CSV"}

NoFault == [at |-> "none", err |-> "none"]

\* what the file system and the serializers may answer: the call that fails
\* and the exception it raises; is_url_available answers False
ExportFaults ==
  {NoFault, [at |-> "is_url_available", err |-> "False"]}
    \cup [at : {"open", "os.remove", "export_spine_database_to_xlsx"},
          err : {"PermissionError", "OSError"}]
    \cup [at : {"create_new_spine_database", "commit_session"}, err : {"SpineDBAPIError"}]

\* the calls an export to file_filter makes that may fail
IOCalls(file_filter) ==
  CASE file_filter = "JSON" -> {"open"}
    [] file_filter = "SQLite" -> {"is_url_available", "create_new_spine_database",
                                  "commit_session"}
    [] file_filter = "Excel" -> {"os.remove", "export_spine_database_to_xlsx"}
    [] OTHER -> {}

\* a signal of the caller: msg_error carries {None: [message]}, the others
\* the path of the file, here what the file holds
CallerSignal(name, file, n) ==
  Signal(name, "none", file, {}, IF n = 0 THEN NoLog ELSE [k \in {"None"} |-> n])

\* SpineDBWorker._get_data_for_export: the rows of the store, not of the
\* cache, for the selected db_maps, type by type
_get_data_for_export(w, db_map_item_ids) ==
  [t \in TypeSet |-> UNION {w.store[db][t] : db \in db_map_item_ids}]

\* SpineDBWorker.export_to_json: open and write stand in no try statement
export_to_json(w, data_for_export, io) ==
  IF io.at = "open" THEN Raise(w)
  ELSE Emit(w, CallerSignal("file_exported", data_for_export, 0))

\* SpineDBWorker.export_to_sqlite: only commit_session stands in the try
\* statement, and only SpineDBAPIError is caught
export_to_sqlite(w, data_for_export, io) ==
  IF io.at = "is_url_available" THEN w
  ELSE IF io.at = "create_new_spine_database" THEN Raise(w)
  ELSE IF io.at = "commit_session"
       THEN IF io.err = "SpineDBAPIError" THEN Emit(w, CallerSignal("msg_error", NoData, 1))
            ELSE Raise(w)
  ELSE Emit(w, CallerSignal("sqlite_file_exported", data_for_export, 0))

\* SpineDBWorker.export_to_excel: os.remove stands before the try statement,
\* which catches PermissionError and OSError
export_to_excel(w, data_for_export, io) ==
  IF io.at = "os.remove" THEN Raise(w)
  ELSE IF io.at = "export_spine_database_to_xlsx"
       THEN IF io.err \in {"PermissionError", "OSError"}
            THEN Emit(w, CallerSignal("msg_error", NoData, 1))
            ELSE Raise(w)
  ELSE Emit(w, CallerSignal("file_exported", data_for_export, 0))

\* SpineDBWorker._export_data
_export_data(w, db_map_item_ids, file_filter, io) ==
  With(_get_data_for_export(w, db_map_item_ids),
       LAMBDA data_ :
         IF file_filter = "JSON" THEN export_to_json(w, data_, io)
         ELSE IF file_filter = "SQLite" THEN export_to_sqlite(w, data_, io)
         ELSE IF file_filter = "Excel" THEN export_to_excel(w, data_, io)
         ELSE Raise(w))

\* SpineDBWorker.export_data: the export of the rows of some db_maps to a
\* file; io is what the file system and the serializer answer
ExportData ==
  \E db_map_item_ids \in SUBSET DbMaps \ {{}}, file_filter \in FileFilters, io \in ExportFaults :
    /\ io.at \in IOCalls(file_filter) \cup {"none"}
    /\ Done(_export_data(World, db_map_item_ids, file_filter, io),
            Op("export", <<>>, NoData,
               [db_map_item_ids |-> db_map_item_ids, file_filter |-> file_filter, io |-> io]))

\* exports between the edits whose rows they write
NextExport ==
  \/ AddItems
  \/ RemoveItems
  \/ CommitSession
  \/ ExportData

SpecExport == Init /\ [][NextExport]_vars

(* ------------------- the worker's thread and its slots ---------------- *)
\* the slots that change a db_map's store
Mutating ==
  {"_add_or_update_items", "_remove_items", "_commit_session", "_rollback_session",
   "_import_data", "_set_scenario_alternatives"}

\* variant: every slot is connected with Qt.DirectConnection
connect_signals_direct(slot) == "DirectConnection"

\* variant: every slot is connected with the connection of line 69
connect_signals_blocking(slot) ==
  IF WorkerThread # GuiThread THEN "BlockingQueuedConnection" ELSE "DirectConnection"

\* SpineDBWorker.connect_signals: the connection type of a slot's signal
connect_signals(slot) ==
  IF slot = "_get_db_map"
  THEN (IF WorkerThread # GuiThread THEN "BlockingQueuedConnection" ELSE "DirectConnection")
  ELSE "AutoConnection"

\* what an emission from thread th does under a connection type: the slot
\* runs at once in th (direct), or the event is posted to the worker's thread
\* and th goes on (queued) or waits for the slot to end (blocking)
Delivery(connection_type, th) ==
  CASE connection_type = "DirectConnection" -> "direct"
    [] connection_type = "BlockingQueuedConnection" -> "blocking"
    [] OTHER -> IF th = WorkerThread THEN "direct" ELSE "queued"

\* the arguments of an emission; a slot reads the ones its signal carries
NoArgs ==
  [method_name |-> "None", item_type |-> "None", signal_name |-> "None", rows |-> {},
   ids |-> NoIds, diff |-> <<>>, plan |-> [items_to_add |-> {}, ids_to_remove |-> {}],
   url |-> "None"]

\* one emission of a <slot>_called signal by thread th; n numbers the calls
\* in the order they are made
Event(slot, batch, arg, th) ==
  [slot |-> slot, batch |-> batch, arg |-> arg, thread |-> th, n |-> MaxSteps - budget + 1,
   how |-> Delivery(connect_signals(slot), th), open_seen |-> FALSE]

\* the events posted or in a slot
PendingEvents == Range(queue) \cup UNION {Range(running[th]) : th \in Threads}

CloseRequested(db) ==
  \E e \in PendingEvents : e.slot = "_close_db_map" /\ e.batch = <<db>>

\* the slot is entered; line 105: _close_db_map reads connection.closed
Enter(ev) ==
  [ev EXCEPT !.open_seen = ev.slot = "_close_db_map" /\ connection[ev.batch[1]].state = "open"]

RECURSIVE EnterAll(_)
EnterAll(evs) == IF evs = <<>> THEN <<>> ELSE <<Enter(Head(evs))>> \o EnterAll(Tail(evs))

\* the signals of evs are emitted by their thread, one after the other
Called(evs) ==
  LET th == evs[1].thread
      how == evs[1].how
  IN /\ pc[th].at = "idle"
     /\ budget > 0
     /\ budget' = budget - 1
     /\ queue' = IF how = "direct" THEN queue ELSE queue \o evs
     /\ running' = IF how = "direct" THEN [running EXCEPT ![th] = @ \o EnterAll(evs)]
                   ELSE running
     /\ pc' = [pc EXCEPT ![th] =
                 CASE how = "direct" -> [Idle EXCEPT !.at = "in_slot"]
                   [] how = "blocking" -> [Idle EXCEPT !.at = "blocked"]
                   [] OTHER -> @]
     /\ UNCHANGED <<data, lastOp, faults, connection, listeners, received>>

\* the event loop of the worker's thread takes up the next event
ProcessEvent ==
  /\ queue # <<>>
  /\ running[WorkerThread] = <<>>
  /\ running' = [running EXCEPT ![WorkerThread] = <<Enter(Head(queue))>>]
  /\ queue' = Tail(queue)
  /\ UNCHANGED <<data, lastOp, budget, faults, pc, connection, worker, returned, listeners,
                 received>>

\* the slot in progress on thread th
Current(th) == running[th][Len(running[th])]

\* the slot of ev ends: its thread goes on, and so does a caller that waited
Leave(th, ev, outcome) ==
  /\ running' = [running EXCEPT ![th] = SubSeq(@, 1, Len(@) - 1)]
  /\ pc' = IF ev.how = "queued" \/ (ev.how = "direct" /\ Len(running[th]) > 1) THEN pc
           ELSE [pc EXCEPT ![ev.thread] =
                   IF ev.slot = "_get_db_map"
                   THEN [at |-> "returning", url |-> ev.arg.url, outcome |-> outcome]
                   ELSE Idle]
  /\ UNCHANGED <<queue, budget, listeners>>

\* what the slot of ev does to the world under the store's answers oc
RunSlot(ev, oc) ==
  CASE ev.slot = "_add_or_update_items" ->
         _add_or_update_items(World, Entries(ev.batch, ev.arg.rows), ev.arg.method_name,
                              ev.arg.item_type, TRUE, ev.arg.signal_name, oc)
    [] ev.slot = "_remove_items" ->
         _remove_items(World, ev.batch, [db \in Range(ev.batch) |-> ev.arg.ids], oc)
    [] ev.slot = "_commit_session" -> _commit_session(World, ev.batch, oc)
    [] ev.slot = "_rollback_session" -> _rollback_session(World, ev.batch, oc)
    [] ev.slot = "_import_data" -> _import_data(World, Entries(ev.batch, ev.arg.diff), oc)
    [] OTHER -> _set_scenario_alternatives(World, Entries(ev.batch, ev.arg.plan), oc)

\* what lastOp keeps of a slot that ended
Ended(ev, oc, emitted, raised) ==
  [op |-> ev.slot, batch |-> ev.batch, oc |-> oc, arg |-> ev.arg, tail |-> {},
   emitted |-> emitted, raised |-> raised, n |-> ev.n, thread |-> ev.thread,
   open_seen |-> ev.open_seen]

\* a slot that changes the store runs to its end
MutatingSlotEnds ==
  \E th \in Threads :
    /\ running[th] # <<>>
    /\ Current(th).slot \in Mutating
    /\ \E oc \in [Range(Current(th).batch) -> {"apply", "raise"}] :
         /\ faults + Failing(oc) <= MaxFaults
         /\ faults' = faults + Failing(oc)
         /\ \E w \in {RunSlot(Current(th), oc)} :
              /\ store' = w.store
              /\ committed' = w.committed
              /\ cache' = w.cache
              /\ undo_stack' = w.undo_stack
              /\ lastOp' = Ended(Current(th), oc, w.emitted, w.raised)
              /\ received' = Notify(listeners, w.emitted)
         /\ Leave(th, Current(th), "None")
    /\ UNCHANGED <<connection, worker, returned>>

\* variant: close() whatever connection.closed said
close_unguarded(conn, open_seen) == Connection("closed", conn.closes + 1)

\* variant: close() when connection.closed
close_when_closed(conn, open_seen) ==
  IF open_seen THEN conn ELSE Connection("closed", conn.closes + 1)

\* SpineDBWorker._close_db_map
_close_db_map(conn, open_seen) ==
  IF open_seen THEN Connection("closed", conn.closes + 1) ELSE conn

_close_db_map_ends ==
  \E th \in Threads :
    /\ running[th] # <<>>
    /\ Current(th).slot = "_close_db_map"
    /\ connection' = [connection EXCEPT ![Current(th).batch[1]] =
                        _close_db_map(@, Current(th).open_seen)]
    /\ lastOp' = Ended(Current(th), NoData, <<>>, FALSE)
    /\ Leave(th, Current(th), "None")
    /\ UNCHANGED <<data, faults, worker, returned, received>>

\* what DiffDatabaseMapping(url) may do
Openings == {"ok", "SpineDBVersionError", "SpineDBAPIError"}

\* SpineDBWorker._get_db_map
_get_db_map(wk, outcome) ==
  IF outcome = "ok" THEN [wk EXCEPT !._db_map = wk._db_map_args]
  ELSE [wk EXCEPT !._err = outcome]

_get_db_map_ends ==
  \E th \in Threads : \E outcome \in Openings :
    /\ running[th] # <<>>
    /\ Current(th).slot = "_get_db_map"
    /\ faults + (IF outcome = "ok" THEN 0 ELSE 1) <= MaxFaults
    /\ faults' = faults + (IF outcome = "ok" THEN 0 ELSE 1)
    /\ worker' = _get_db_map(worker, outcome)
    /\ connection' = IF outcome = "ok"
                     THEN [connection EXCEPT ![worker._db_map_args] = Connection("open", 0)]
                     ELSE connection
    /\ lastOp' = Ended(Current(th), (Current(th).arg.url :> outcome), <<>>, FALSE)
    /\ Leave(th, Current(th), outcome)
    /\ UNCHANGED <<data, returned, received>>

\* variant: the fields keep what the call before left in them
get_db_map_keeping(wk, url) == [wk EXCEPT !._db_map_args = url]

\* SpineDBWorker.get_db_map, lines 86-89
get_db_map(wk, url) == [_db_map |-> "None", _db_map_args |-> url, _err |-> "None"]

\* line 91: return self._db_map, self._err
Returned(wk, url, outcome) ==
  [db_map |-> wk._db_map, err |-> wk._err, url |-> url, outcome |-> outcome,
   prev |-> returned.outcome]

\* SpineDBManager.get_db_map opens a url it holds no db_map for; the call is
\* made on the interactive thread.  An emission that does not make the caller
\* wait is followed by the return at once.
_get_db_map_called ==
  \E url \in DbMaps :
    LET ev == Event("_get_db_map", <<url>>, [NoArgs EXCEPT !.url = url], GuiThread)
    IN /\ connection[url].state = "none"
       /\ worker' = get_db_map(worker, url)
       /\ Called(<<ev>>)
       /\ returned' = IF ev.how = "queued" THEN Returned(worker', url, "None") ELSE returned

\* the caller of get_db_map goes on after the slot: line 91
get_db_map_returns ==
  \E th \in Callers :
    /\ pc[th].at = "returning"
    /\ returned' = Returned(worker, pc[th].url, pc[th].outcome)
    /\ pc' = [pc EXCEPT ![th] = Idle]
    /\ UNCHANGED <<data, lastOp, budget, faults, queue, running, connection, worker, listeners,
                   received>>

\* the batches a caller may name: open db_maps nobody asked to close
OpenBatches ==
  {b \in Batches : \A db \in Range(b) : connection[db].state = "open" /\ ~CloseRequested(db)}

\* the rows the pending events may still add to table t of db
PendingAdds(db, t) ==
  Cardinality({e \in PendingEvents :
                 /\ db \in Range(e.batch)
                 /\ \/ e.slot = "_add_or_update_items" /\ e.arg.item_type = t
                    \/ e.slot = "_import_data"
                       /\ \E i \in 1..Len(e.arg.diff) :
                            e.arg.diff[i].type = t /\ e.arg.diff[i].to_add # {}
                    \/ e.slot = "_set_scenario_alternatives"
                       /\ t = "scenario_alternative" /\ e.arg.plan.items_to_add # {}})

HasIdFor(batch, t) ==
  \A db \in Range(batch) : Cardinality(FreeIds(store[db], t)) > PendingAdds(db, t)

\* the macros the pending events may still push on the stack of db
PendingPushes(db) ==
  Cardinality({e \in PendingEvents :
                 db \in Range(e.batch)
                 /\ e.slot \in {"_import_data", "_set_scenario_alternatives"}})

HasRoomFor(batch) ==
  Sum([db \in DbMaps |-> Len(undo_stack[db].cmds) + PendingPushes(db)
                         + (IF db \in Range(batch) THEN 1 ELSE 0)], DbMaps) <= MaxCmds

\* the item types the callers add and remove
CalledTypes == {"object_class", "object"}

\* SpineDBWorker.add_or_update_items
_add_or_update_items_called ==
  \E th \in Callers, batch \in OpenBatches, t \in CalledTypes :
    /\ HasIdFor(batch, t)
    /\ Called(<<Event("_add_or_update_items", batch,
                      [NoArgs EXCEPT !.method_name = "add_items", !.item_type = t,
                                     !.signal_name = "added",
                                     !.rows = {Row(0, IF Parent(t) = "none" THEN 0 ELSE 1, 1)}],
                      th)>>)
    /\ UNCHANGED <<worker, returned>>

\* SpineDBWorker.remove_items
_remove_items_called ==
  \E th \in Callers, batch \in OpenBatches, t \in CalledTypes :
    /\ Called(<<Event("_remove_items", batch, [NoArgs EXCEPT !.ids = TypedIds(t, {1})], th)>>)
    /\ UNCHANGED <<worker, returned>>

\* SpineDBWorker.commit_session; the manager passes the dirty db_maps
_commit_session_called ==
  \E th \in Callers, batch \in OpenBatches :
    /\ \A db \in Range(batch) : ~isClean(undo_stack[db])
    /\ Called(<<Event("_commit_session", batch, NoArgs, th)>>)
    /\ UNCHANGED <<worker, returned>>

\* SpineDBWorker.rollback_session; the manager passes the dirty db_maps
_rollback_session_called ==
  \E th \in Callers, batch \in OpenBatches :
    /\ \A db \in Range(batch) : ~isClean(undo_stack[db])
    /\ Called(<<Event("_rollback_session", batch, NoArgs, th)>>)
    /\ UNCHANGED <<worker, returned>>

\* what the resolver answers in the runs with threads
CalledDiffs ==
  {<<>>, <<ImportEntry("object_class", {Row(0, 0, 1)}, {}, 0)>>}

\* SpineDBWorker.import_data
_import_data_called ==
  \E th \in Callers, batch \in OpenBatches, diff \in CalledDiffs :
    /\ HasRoomFor(batch)
    /\ HasIdFor(batch, "object_class")
    /\ Called(<<Event("_import_data", batch, [NoArgs EXCEPT !.diff = diff], th)>>)
    /\ UNCHANGED <<worker, returned>>

\* SpineDBWorker.set_scenario_alternatives
_set_scenario_alternatives_called ==
  \E th \in Callers, batch \in OpenBatches :
    /\ HasRoomFor(batch)
    /\ HasIdFor(batch, "scenario_alternative")
    /\ Called(<<Event("_set_scenario_alternatives", batch,
                      [NoArgs EXCEPT !.plan.items_to_add = {Row(0, 0, 1)}], th)>>)
    /\ UNCHANGED <<worker, returned>>

\* the db_maps in their order
DbMapSeq == <<"A", "B">>

\* SpineDBManager.close_all_sessions: close_db_map for every db_map it holds
close_all_sessions ==
  \E th \in Callers :
    LET held == SelectSeq(DbMapSeq, LAMBDA db : connection[db].state # "none")
    IN /\ held # <<>>
       /\ Called([i \in 1..Len(held) |-> Event("_close_db_map", <<held[i]>>, NoArgs, th)])
       /\ UNCHANGED <<worker, returned>>

\* the worker as it is constructed: no db_map is open
InitThreads ==
  /\ store = [db \in DbMaps |-> EmptyTables]
  /\ committed = [db \in DbMaps |-> EmptyTables]
  /\ cache = NoData
  /\ undo_stack = [db \in DbMaps |-> EmptyStack]
  /\ lastOp = [op |-> "init", batch |-> <<>>, oc |-> NoData, arg |-> NoArgs, tail |-> {},
               emitted |-> <<>>, raised |-> FALSE, n |-> 0, thread |-> "None",
               open_seen |-> FALSE]
  /\ budget = MaxSteps
  /\ faults = 0
  /\ queue = <<>>
  /\ pc = [th \in Callers |-> Idle]
  /\ running = [th \in Threads |-> <<>>]
  /\ connection = [db \in DbMaps |-> Connection("none", 0)]
  /\ worker = NewWorker
  /\ returned = NothingReturned
  /\ listeners = [l \in Listeners |-> {}]
  /\ received = <<>>

\* the steps of the worker's thread
WorkerSteps ==
  \/ ProcessEvent
  \/ MutatingSlotEnds
  \/ _close_db_map_ends
  \/ _get_db_map_ends

NextThreads ==
  \/ _get_db_map_called
  \/ get_db_map_returns
  \/ _add_or_update_items_called
  \/ _remove_items_called
  \/ _commit_session_called
  \/ _rollback_session_called
  \/ _import_data_called
  \/ _set_scenario_alternatives_called
  \/ close_all_sessions
  \/ ProcessEvent
  \/ MutatingSlotEnds
  \/ _close_db_map_ends
  \/ _get_db_map_ends

SpecThreads == InitThreads /\ [][NextThreads]_vars

\* the event loop of the worker's thread runs as long as there are events
FairThreads == SpecThreads /\ WF_vars(WorkerSteps)

(* ------------------- get_db_map from several threads ------------------ *)
\* SpineDBWorker.get_db_map called by any thread but the worker's: lines 86-89
\* write the fields of the worker, line 90 emits and the caller waits for the
\* slot; nothing keeps a second thread from doing the same meanwhile
get_db_map_called ==
  \E th \in Callers, url \in DbMaps :
    /\ connection[url].state = "none"
    /\ worker' = get_db_map(worker, url)
    /\ Called(<<Event("_get_db_map", <<url>>, [NoArgs EXCEPT !.url = url], th)>>)
    /\ UNCHANGED returned

NextOpenings ==
  \/ get_db_map_called
  \/ ProcessEvent
  \/ _get_db_map_ends
  \/ get_db_map_returns

SpecOpenings == InitThreads /\ [][NextOpenings]_vars

(* ------------------------ the scenario generator ---------------------- *)
\* largest number of alternative combinations a dialog is accepted with
MaxCombinations == 2

\* the texts of the prefix field.  Every scenario of these runs is named
\* "p<k>": the val of its row is the number k
Prefixes == {"", " ", "p"}

\* str.strip
strip(text) == IF text = " " THEN "" ELSE text

\* what the user answers when asked about scenarios that exist already
Answers == {"cancel", "keep", "overwrite"}

\* SpineDBEditor.scenario_items(db_map): the scenarios the editor lists, in
\* any of the orders its model may hold them in
scenario_items(cached) ==
  LET items == {c \in cached : c.type = "scenario"}
  IN {s \in [1..Cardinality(items) -> items] : {s[i] : i \in DOMAIN s} = items}

\* variant: a cancelled prompt overwrites
_check_existing_scenarios_overwriting(proposed_scenario_names, existing_scenario_names, answer) ==
  IF proposed_scenario_names \cap existing_scenario_names = {} THEN "NO_CONFLICT"
  ELSE IF answer = "keep" THEN "LEAVE_AS_IS" ELSE "OVERWRITE"

\* ScenarioGenerator._check_existing_scenarios
_check_existing_scenarios(proposed_scenario_names, existing_scenario_names, answer) ==
  IF proposed_scenario_names \cap existing_scenario_names = {} THEN "NO_CONFLICT"
  ELSE CASE answer = "cancel" -> "CANCEL_OPERATION"
         [] answer = "keep" -> "LEAVE_AS_IS"
         [] OTHER -> "OVERWRITE"

\* ScenarioGenerator.accept, lines 83-84: the numbers of the generated names
generated_scenario_names(combinations) == 1..combinations

\* ScenarioGenerator.accept, lines 91-99
new_scenarios(generated, existing, resolution) ==
  IF resolution = "NO_CONFLICT" THEN generated ELSE generated \ existing

scenarios_to_modify(generated, existing, resolution) ==
  IF resolution \in {"NO_CONFLICT", "OVERWRITE"} THEN generated
  ELSE new_scenarios(generated, existing, resolution)

\* ScenarioGenerator._generate_scenarios, lines 115-123: the listed scenarios
\* in their order; each one that is searched for gets the next combination
RECURSIVE scenario_definitions_by_id(_, _, _)
scenario_definitions_by_id(items, searchable_names, next) ==
  IF items = <<>> THEN {}
  ELSE IF Head(items).val \notin searchable_names
  THEN scenario_definitions_by_id(Tail(items), searchable_names, next)
  ELSE {[id |-> Head(items).id, combination |-> next]}
       \cup scenario_definitions_by_id(Tail(items), searchable_names, next + 1)

\* SpineDBManager.get_data_to_set_scenario_alternatives: the rows of the
\* named scenarios that differ from the request go, the missing ones come
get_data_to_set_scenario_alternatives(tables, request) ==
  LET current == tables["scenario_alternative"]
      stale == {r \in current : \E q \in request : q.id = r.ref /\ q.combination # r.val}
      kept == current \ stale
  IN [items_to_add |-> {Row(0, q.id, q.combination) :
                          q \in {x \in request : ~\E r \in kept : r.ref = x.id}},
      ids_to_remove |-> {r.id : r \in stale}]

\* helpers.signal_waiter(signal): entering the block connects the waiter's
\* trigger to the signal, leaving it disconnects the trigger
signal_waiter_enter(ls) == ls @@ ("waiter" :> {})

signal_waiter_exit(ls) == [l \in DOMAIN ls \ {"waiter"} |-> ls[l]]

\* SpineDBManager.scenarios_added is among the signals emitted
scenarios_added(emitted) ==
  \E i \in 1..Len(emitted) : emitted[i].sig = "added" /\ emitted[i].type = "scenario"

\* what the dialog keeps of a call of accept: its inputs, what it decided,
\* the requests it submitted to the manager and the data of the last one
Accepted(db, prefix, combinations, answer, existing, resolution) ==
  [db |-> db, prefix |-> prefix, combinations |-> combinations, answer |-> answer,
   existing |-> existing, resolution |-> resolution,
   new_scenarios |-> IF resolution \in {"None", "CANCEL_OPERATION"} THEN {}
                     ELSE new_scenarios(generated_scenario_names(combinations), existing,
                                        resolution),
   scenarios_to_modify |-> IF resolution \in {"None", "CANCEL_OPERATION"} THEN {}
                           ELSE scenarios_to_modify(generated_scenario_names(combinations),
                                                    existing, resolution),
   submitted |-> <<>>, request |-> {}, listed |-> <<>>, answered |-> FALSE,
   triggered |-> FALSE]

\* a step of the dialog or of the editor: the world becomes the state, the
\* calls in progress on the interactive thread are frames
GeneratorStep(w, o, frames, ls, failing) ==
  /\ faults + failing <= MaxFaults
  /\ faults' = faults + failing
  /\ store' = w.store
  /\ committed' = w.committed
  /\ cache' = w.cache
  /\ undo_stack' = w.undo_stack
  /\ lastOp' = [op |-> o.op, batch |-> o.batch, oc |-> o.oc, arg |-> o.arg, tail |-> o.tail,
                emitted |-> w.emitted, raised |-> w.raised]
  /\ received' = Notify(ls, w.emitted)
  /\ running' = [running EXCEPT ![GuiThread] = frames]
  /\ listeners' = ls
  /\ UNCHANGED <<queue, pc, connection, worker, returned>>

\* ScenarioGenerator._generate_scenarios, lines 115-127: the request is built
\* from the scenarios as the editor lists them and handed to the manager
set_scenario_alternatives(w, dialog, items, oc) ==
  LET request == scenario_definitions_by_id(items, dialog.scenarios_to_modify, 1)
  IN [world |-> _set_scenario_alternatives(
                  w, Entry(dialog.db, get_data_to_set_scenario_alternatives(w.store[dialog.db],
                                                                           request)), oc),
      dialog |-> [dialog EXCEPT !.submitted = Append(@, "set_scenario_alternatives"),
                                !.request = request, !.listed = items]]

\* ScenarioGenerator.accept up to waiter.wait(): an empty prefix or a
\* cancelled prompt ends it; without new scenarios the alternatives are set
\* at once; else add_scenarios is submitted inside the signal_waiter block
\* and the dialog waits for scenarios_added
accept ==
  \E db \in DbMaps, prefix \in Prefixes, combinations \in 1..MaxCombinations,
     answer \in Answers, outcome \in {"apply", "raise"} :
    LET oc == (db :> outcome)
        existing == {c.val : c \in {x \in CachedOf(cache, db) : x.type = "scenario"}}
        resolution == IF strip(prefix) = "" THEN "None"
                      ELSE _check_existing_scenarios(generated_scenario_names(combinations),
                                                     existing, answer)
        dialog == Accepted(db, prefix, combinations, answer, existing, resolution)
        rows == {Row(0, 0, k) : k \in dialog.new_scenarios}
    IN /\ running[GuiThread] = <<>>
       /\ budget > 0
       /\ budget' = budget - 1
       /\ IF resolution \in {"None", "CANCEL_OPERATION"}
          THEN GeneratorStep(World, Op("accept", <<db>>, NoData, dialog), <<>>, listeners, 0)
          ELSE IF dialog.new_scenarios = {}
          THEN \E items \in scenario_items(CachedOf(cache, db)) :
                 \E res \in {set_scenario_alternatives(World, dialog, items, oc)} :
                   GeneratorStep(res.world, Op("accept", <<db>>, oc, res.dialog), <<>>,
                                 listeners, Failing(oc))
          ELSE /\ Cardinality(FreeIds(store[db], "scenario")) >= Cardinality(rows)
               /\ \E w \in {PushAll(_add_or_update_items(World, Entry(db, rows), "add_items",
                                                         "scenario", TRUE, "added", oc),
                                    <<db>>, (db :> AddItemsCommand(rows, "scenario", TRUE)))} :
                    \E waiting \in {[dialog EXCEPT !.submitted = <<"add_scenarios">>,
                                                   !.answered = scenarios_added(w.emitted),
                                                   !.triggered = scenarios_added(w.emitted)]} :
                      GeneratorStep(w, Op("accept", <<db>>, oc, waiting), <<waiting>>,
                                    signal_waiter_enter(listeners), Failing(oc))

\* waiter.wait() returns once the trigger was called; the block is left and
\* lines 115-127 set the alternatives
wait_ends ==
  /\ running[GuiThread] # <<>>
  /\ running[GuiThread][1].triggered
  /\ UNCHANGED budget
  /\ \E oc \in [{running[GuiThread][1].db} -> {"apply", "raise"}] :
       \E items \in scenario_items(CachedOf(cache, running[GuiThread][1].db)) :
         \E res \in {set_scenario_alternatives(World, running[GuiThread][1], items, oc)} :
           GeneratorStep(res.world, Op("wait_ends", <<res.dialog.db>>, oc, res.dialog), <<>>,
                         signal_waiter_exit(listeners), Failing(oc))

\* SpineDBManager.add_scenarios called by the editor's scenario tree: one
\* scenario under a name the db_map does not hold; a waiting dialog's trigger
\* is called with every scenarios_added
add_scenarios ==
  \E db \in DbMaps, k \in Vals, outcome \in {"apply", "raise"} :
    LET oc == (db :> outcome)
        rows == {Row(0, 0, k)}
    IN /\ budget > 0
       /\ budget' = budget - 1
       /\ ~\E r \in store[db]["scenario"] : r.val = k
       /\ FreeIds(store[db], "scenario") # {}
       /\ \E w \in {PushAll(_add_or_update_items(World, Entry(db, rows), "add_items",
                                                 "scenario", TRUE, "added", oc),
                            <<db>>, (db :> AddItemsCommand(rows, "scenario", TRUE)))} :
            GeneratorStep(w, Op("add_scenarios", <<db>>, oc, [db |-> db, name |-> k]),
                          IF running[GuiThread] # <<>> /\ scenarios_added(w.emitted)
                          THEN <<[running[GuiThread][1] EXCEPT !.triggered = TRUE]>>
                          ELSE running[GuiThread],
                          listeners, Failing(oc))

\* the editor with both db_maps open and no dialog accepted yet
InitGenerator ==
  /\ store = [db \in DbMaps |-> EmptyTables]
  /\ committed = [db \in DbMaps |-> EmptyTables]
  /\ cache = NoData
  /\ undo_stack = [db \in DbMaps |-> EmptyStack]
  /\ lastOp = [op |-> "init", batch |-> <<>>, oc |-> NoData, arg |-> [db |-> "None"],
               tail |-> {}, emitted |-> <<>>, raised |-> FALSE]
  /\ budget = MaxSteps
  /\ faults = 0
  /\ queue = <<>>
  /\ pc = [th \in Callers |-> Idle]
  /\ running = [th \in Threads |-> <<>>]
  /\ connection = [db \in DbMaps |-> Connection("open", 0)]
  /\ worker = NewWorker
  /\ returned = NothingReturned
  /\ listeners = [l \in Listeners |-> {}]
  /\ received = <<>>

NextGenerator ==
  \/ accept
  \/ wait_ends
  \/ add_scenarios

SpecGenerator == InitGenerator /\ [][NextGenerator]_vars

\* the interactive thread's event loop keeps running: a wait whose trigger
\* was called returns
FairGenerator == SpecGenerator /\ WF_vars(wait_ends)

(* ------------------------------ properties ---------------------------- *)
\* the signals of kind name the last operation emitted
Emitted(name) ==
  {lastOp.emitted[i] : i \in {j \in 1..Len(lastOp.emitted) : lastOp.emitted[j].sig = name}}

\* the db_maps the last operation reported an error for
Reported == {db \in DbMaps : \E e \in Emitted("error_msg") : db \in DOMAIN e.log /\ e.log[db] > 0}

\* the db_maps the last operation announced with the session signal name
Announced(name) == UNION {e.db_maps : e \in Emitted(name)}

\* C1: after commit_session, the CommandHistory of every Connection whose
\* commit the store accepted is clean: its clean index is its position
C1_CommitMarksClean ==
  lastOp.op = "commit" =>
    \A db \in Range(lastOp.batch) :
      lastOp.oc[db] = "apply" =>
        /\ undo_stack[db].clean_index = undo_stack[db].index
        /\ isClean(undo_stack[db])

\* a commit the store accepted, on a history that holds undone commands
C1_Witness ==
  /\ lastOp.op = "commit"
  /\ \E db \in lastOp.tail : lastOp.oc[db] = "apply" /\ undo_stack[db].index > 0

\* C2: after rollback_session went through for a Connection, its cache holds
\* no item and its CommandHistory holds no command, also when the Connection
\* had no cache before.  The loop reaches a Connection when every one before
\* it either failed in the store or had a cache to delete.
C2_RollbackEmpties ==
  [][lastOp'.op = "rollback" =>
       \A i \in 1..Len(lastOp'.batch) :
         LET db == lastOp'.batch[i]
             reached == \A j \in 1..(i - 1) :
                          \/ lastOp'.oc[lastOp'.batch[j]] = "raise"
                          \/ lastOp'.batch[j] \in DOMAIN cache
         IN lastOp'.oc[db] = "apply" /\ reached =>
              /\ CachedOf(cache', db) = {}
              /\ undo_stack'[db].cmds = <<>>
              /\ ~canUndo(undo_stack'[db]) /\ ~canRedo(undo_stack'[db])]_vars

\* a rollback of both Connections that went through, one of them with undone
\* commands in its history
C2_Witness ==
  /\ lastOp.op = "rollback"
  /\ Announced("session_rolled_back") = DbMaps
  /\ lastOp.tail # {}

\* C3: after an import that went through, no macro whose every child is a
\* no-op, a macro without children included, is left in the CommandHistory
C3_IdleMacroRemoved ==
  lastOp.op = "import" /\ ~lastOp.raised =>
    \A db \in Range(lastOp.batch) :
      \A i \in 1..Len(undo_stack[db].cmds) :
        LET cmd == undo_stack[db].cmds[i]
        IN cmd.kind = "macro" => \E j \in 1..Len(cmd.children) : ~cmd.children[j].obsolete

\* the row AddItems hands to every db_map of the batch
AddedRow(t) == Row(0, IF Parent(t) = "none" THEN 0 ELSE 1, 1)

\* C4: in a batch add over two Connections, when the rows of one are
\* reported in error and the row is valid in the other, the other's row is
\* in its store, in its cache and in an "added" notification
C4_BatchAddIsolation ==
  lastOp.op = "add" =>
    \A a \in Range(lastOp.batch) : \A b \in Range(lastOp.batch) \ {a} :
      a \in Reported /\ RowValid(store[b], lastOp.arg, AddedRow(lastOp.arg)) =>
        \E e \in Emitted("added") :
          /\ b \in e.db_maps
          /\ \E item \in e.data[b] :
               /\ item.type = lastOp.arg
               /\ item.ref = AddedRow(lastOp.arg).ref /\ item.val = AddedRow(lastOp.arg).val
               /\ item \in CachedOf(cache, b)
               /\ cache_to_db(item) \in store[b][lastOp.arg]

\* a batch add where A's row is reported in error and B's row is announced
C4_Witness ==
  /\ lastOp.op = "add"
  /\ lastOp.batch = <<"A", "B">>
  /\ "A" \in Reported
  /\ \E e \in Emitted("added") : "B" \in e.db_maps /\ e.data["B"] \subseteq CachedOf(cache, "B")

PushOps == {"add", "update", "remove", "import", "set_scenario_alternatives"}

\* C8: after an operation that pushes a command, macros included, the
\* CommandHistory of every Connection it pushed on ends at its position:
\* no command is left to redo
C8_PushDropsRedoTail ==
  lastOp.op \in PushOps /\ ~lastOp.raised =>
    \A db \in Range(lastOp.batch) :
      lastOp.oc[db] # "bad" =>
        /\ ~canRedo(undo_stack[db])
        /\ undo_stack[db].index = Len(undo_stack[db].cmds)

\* an import pushed its macro on a history that held undone commands
C8_Witness ==
  /\ lastOp.op = "import"
  /\ ~lastOp.raised
  /\ \E db \in lastOp.tail :
       /\ lastOp.oc[db] = "apply"
       /\ undo_stack[db].index > 0
       /\ undo_stack[db].cmds[undo_stack[db].index].kind = "macro"

\* C9: no batch operation of the Worker ends with an exception escaping it
C9_NoEscape ==
  lastOp.op \in {"add", "update", "remove", "commit", "rollback", "import"} => ~lastOp.raised

\* C10: in a commit_session, a Connection whose commit the store rejects
\* keeps its CommandHistory with its clean index, is reported and is not
\* announced as committed; every other Connection of the batch is committed,
\* marked clean and announced
C10_CommitFailureIsolated ==
  [][lastOp'.op = "commit" =>
       \A db \in Range(lastOp'.batch) :
         IF lastOp'.oc[db] = "raise"
         THEN /\ undo_stack'[db].clean_index = undo_stack[db].clean_index
              /\ undo_stack'[db] = undo_stack[db]
              /\ committed'[db] = committed[db]
              /\ db \in Reported'
              /\ db \notin Announced("session_committed")'
         ELSE /\ isClean(undo_stack'[db])
              /\ committed'[db] = store[db]
              /\ db \in Announced("session_committed")']_vars

\* a commit over both Connections that the store rejects for the first
C10_Witness ==
  /\ lastOp.op = "commit"
  /\ Len(lastOp.batch) = 2
  /\ lastOp.oc[lastOp.batch[1]] = "raise"
  /\ lastOp.batch[1] \in Reported
  /\ lastOp.batch[2] \in Announced("session_committed")

\* the cached item c is the row sid of type st or depends on it, by its own
\* reference or through its parent row in tables
DependsOn(tables, c, st, sid) ==
  \/ c.type = st /\ c.id = sid
  \/ Parent(c.type) = st /\ c.ref = sid
  \/ /\ Parent(c.type) # "none"
     /\ Parent(Parent(c.type)) = st
     /\ \E p \in tables[Parent(c.type)] : p.id = c.ref /\ p.ref = sid

\* c is a seed of the typed ids or depends on one
InClosure(tables, c, ids_per_type) ==
  \E st \in TypeSet : \E sid \in ids_per_type[st] : DependsOn(tables, c, st, sid)

\* C5: remove_items leaves no cached item that is a seed or depends on one,
\* takes nothing else from the cache, and announces everything it evicted,
\* for all Connections, in one "removed" notification
C5_RemoveEvictsClosure ==
  [][lastOp'.op = "remove" =>
       /\ Cardinality({j \in 1..Len(lastOp'.emitted) : lastOp'.emitted[j].sig = "removed"}) <= 1
       /\ \A db \in Range(lastOp'.batch) :
            LET gone == CachedOf(cache, db) \ CachedOf(cache', db)
            IN /\ \A c \in CachedOf(cache', db) : ~InClosure(store[db], c, lastOp'.arg)
               /\ \A c \in gone : InClosure(store[db], c, lastOp'.arg)
               /\ CachedOf(cache', db) \subseteq CachedOf(cache, db)
               /\ gone # {} =>
                    \E e \in Emitted("removed")' : db \in e.db_maps /\ e.data[db] = gone]_vars

\* the removal of an object_class took its object and the object's
\* parameter_value from the cache with it
C5_Witness ==
  /\ lastOp.op = "remove"
  /\ lastOp.arg["object_class"] # {}
  /\ \E e \in Emitted("removed") : \E db \in e.db_maps :
       {c.type : c \in e.data[db]} = {"object_class", "object", "parameter_value"}

\* the cache of one db_map as a dictionary keyed by (type, id)
Keys(items) == {<<c.type, c.id>> : c \in items}

AsDict(items) == [k \in Keys(items) |-> CHOOSE c \in items : <<c.type, c.id>> = k]

\* the reference dictionary: put upserts by key, remove evicts keys
RefPut(d, items) ==
  [k \in DOMAIN d \cup Keys(items) |-> IF k \in Keys(items) THEN AsDict(items)[k] ELSE d[k]]

RefRemove(d, keys) == [k \in DOMAIN d \ keys |-> d[k]]

\* C7: an add, update or remove changes the cache of every Connection as
\* the same operation changes a reference dictionary keyed by id: the rows
\* the store wrote are put, the seeds of a removal and their dependents are
\* evicted, every key holds one item
C7_CacheIsReferenceDict ==
  [][lastOp'.op \in {"add", "update", "remove"} =>
       \A db \in DbMaps :
         LET d == AsDict(CachedOf(cache, db))
             written == {CacheItem(lastOp'.arg, r) :
                           r \in store'[db][lastOp'.arg] \ store[db][lastOp'.arg]}
             expected ==
               IF db \notin Range(lastOp'.batch) THEN d
               ELSE IF lastOp'.op = "remove"
               THEN RefRemove(d, {k \in DOMAIN d : InClosure(store[db], d[k], lastOp'.arg)})
               ELSE RefPut(d, written)
         IN /\ Cardinality(Keys(CachedOf(cache', db))) = Cardinality(CachedOf(cache', db))
            /\ AsDict(CachedOf(cache', db)) = expected]_vars

\* an update went through on a cached item
C7_Witness ==
  /\ lastOp.op = "update"
  /\ \E e \in Emitted("updated") : \E db \in e.db_maps :
       e.data[db] # {} /\ e.data[db] \subseteq CachedOf(cache, db)

\* C6: undo of an add, update or remove command followed by its redo, and
\* redo followed by undo, leave the cache of the Connection as it was before
\* the pair, when the store accepts both
C6_UndoRedoInverse ==
  [][/\ lastOp'.op = "undo" /\ ~lastOp'.raised /\ lastOp'.oc[lastOp'.batch[1]] = "apply" =>
          LET db == lastOp'.batch[1]
          IN undo_stack[db].cmds[undo_stack[db].index].kind # "macro"
             /\ canRedo(undo_stack'[db]) =>
               With(StackRedo(World', db, (db :> "apply")),
                    LAMBDA w2 : ~w2.raised => CachedOf(w2.cache, db) = CachedOf(cache, db))
     /\ lastOp'.op = "redo" /\ ~lastOp'.raised /\ lastOp'.oc[lastOp'.batch[1]] = "apply" =>
          LET db == lastOp'.batch[1]
          IN undo_stack[db].cmds[undo_stack[db].index + 1].kind # "macro"
             /\ canUndo(undo_stack'[db]) =>
               With(StackUndo(World', db, (db :> "apply")),
                    LAMBDA w2 : ~w2.raised => CachedOf(w2.cache, db) = CachedOf(cache, db))]_vars

(* ------------------------ threads: properties ------------------------- *)
\* a slot ended in this step
SlotEnded == lastOp' # lastOp

\* C11: the calls on one Connection take effect in the order they were made:
\* when a slot ends, no call made before it on one of its Connections is
\* still waiting or in progress.  An add that ends has its items cached, and
\* a remove that ends leaves none of the ids it names in the cache, those of
\* the adds called before it included.
C11_SubmissionOrder ==
  [][SlotEnded =>
       /\ \A e \in PendingEvents' :
            Range(e.batch) \cap Range(lastOp'.batch) # {} => e.n > lastOp'.n
       /\ lastOp'.op = "_add_or_update_items" =>
            \A i \in 1..Len(lastOp'.emitted) :
              lastOp'.emitted[i].sig = "added" =>
                \A db \in lastOp'.emitted[i].db_maps :
                  lastOp'.emitted[i].data[db] \subseteq CachedOf(cache', db)
       /\ lastOp'.op = "_remove_items" =>
            \A db \in Range(lastOp'.batch) :
              \A c \in CachedOf(cache', db) : c.id \notin lastOp'.arg.ids[c.type]]_vars

\* a remove took from the cache the item an add called before it had put there
C11_Witness ==
  /\ lastOp.op = "_remove_items"
  /\ \E e \in Emitted("removed") : \E db \in e.db_maps :
       \E c \in e.data[db] : c.id \in lastOp.arg.ids[c.type] /\ c \notin CachedOf(cache, db)

\* the slots in progress, on any thread, that change the store of db
InProgress(db) ==
  {<<th, i>> \in Threads \X (1..MaxSteps) :
     /\ i <= Len(running[th])
     /\ running[th][i].slot \in Mutating
     /\ db \in Range(running[th][i].batch)}

\* C12: at most one store-mutating slot is in progress on a Connection's
\* store, whichever threads made the calls
C12_OneMutationInFlight ==
  \A db \in DbMaps : Cardinality(InProgress(db)) <= 1

\* a mutating slot is in progress on a Connection while a mutating call of
\* another thread on the same Connection waits
C12_Witness ==
  \E db \in DbMaps :
    /\ InProgress(db) # {}
    /\ \E e \in Range(queue) :
         /\ e.slot \in Mutating
         /\ db \in Range(e.batch)
         /\ e.thread # Current(WorkerThread).thread

NewCalls == PendingEvents' \ PendingEvents

C17_ClosedAtMostOnce ==
  [][/\ \A db \in DbMaps : connection'[db].closes <= 1
     /\ SlotEnded /\ lastOp'.op = "_close_db_map" /\ ~lastOp'.open_seen =>
          /\ connection' = connection
          /\ ~lastOp'.raised]_vars

\* a close request ended on a connection that was closed already
C17_Witness ==
  /\ lastOp.op = "_close_db_map"
  /\ ~lastOp.open_seen
  /\ connection[lastOp.batch[1]] = Connection("closed", 1)

\* C18: once close_all_sessions asked to close a Connection, its store
\* connection is closed in the end, whatever was called before
C18_EventuallyClosed ==
  \A db \in DbMaps : CloseRequested(db) ~> (connection[db].state = "closed")

\* the close request of an open connection waits behind a mutating call
C18_Witness ==
  \E db \in DbMaps :
    /\ connection[db].state = "open"
    /\ \E i \in 1..Len(queue) : \E j \in (i + 1)..Len(queue) :
         /\ queue[i].slot \in Mutating
         /\ db \in Range(queue[i].batch)
         /\ queue[j].slot = "_close_db_map" /\ queue[j].batch = <<db>>

OpeningErrors == {"SpineDBVersionError", "SpineDBAPIError"}

\* C19: get_db_map returns the mapping and no error when the store opened
\* the url, no mapping and the error when the store reported one; nothing of
\* the call before is in the answer
C19_MappingOrError ==
  returned.url # "None" =>
    /\ (returned.db_map = "None") # (returned.err = "None")
    /\ returned.outcome = "ok" => returned.db_map = returned.url /\ returned.err = "None"
    /\ returned.outcome \in OpeningErrors =>
         returned.db_map = "None" /\ returned.err = returned.outcome
    /\ returned.outcome \in Openings

\* a call that opened its url, after a call that failed
C19_Witness ==
  /\ returned.prev \in OpeningErrors
  /\ returned.outcome = "ok"
  /\ returned.db_map = returned.url

Dangling(db) ==
  {c \in CachedOf(cache, db) :
     /\ Parent(c.type) # "none"
     /\ ~\E p \in store[db][Parent(c.type)] : p.id = c.ref}

\* the positions of the "added" signals of the last operation
AddedAt == {i \in 1..Len(lastOp.emitted) : lastOp.emitted[i].sig = "added"}

CallsAbout(l, db) ==
  {x \in UNION {{<<i, r>> : r \in received[i]} : i \in 1..Len(received)} :
     x[2].listener = l /\ db \in DOMAIN x[2].data}

Requests == {"add", "update", "remove"}

Changed(db) ==
  IF lastOp'.op = "remove" THEN CachedOf(cache, db) \ CachedOf(cache', db)
  ELSE CachedOf(cache', db) \ CachedOf(cache, db)

MacroOps == {"import", "set_scenario_alternatives"}

\* the macro the last operation pushed on the history of db and left there
Pushed(db) == undo_stack'[db].cmds[undo_stack'[db].index]

\* C23: when import_data or set_scenario_alternatives has gone through, the
\* macro it pushed for a Connection is obsolete, and gone from the history,
\* if and only if all of its children are obsolete; a macro that stays is
\* the one command the position moved over, with a child that is not
\* obsolete
C23_MacroObsoleteIffChildren ==
  [][lastOp'.op \in MacroOps /\ ~lastOp'.raised =>
       \A db \in Range(lastOp'.batch) :
         lastOp'.oc[db] # "bad" =>
           \/ /\ undo_stack'[db].index = undo_stack[db].index + 1
              /\ Len(undo_stack'[db].cmds) = undo_stack'[db].index
              /\ Pushed(db).kind = "macro"
              /\ Pushed(db).obsolete <=> AllObsolete(Pushed(db).children)
           \/ /\ undo_stack'[db].index = undo_stack[db].index
              /\ undo_stack'[db].cmds = SubSeq(undo_stack[db].cmds, 1, undo_stack[db].index)]_vars

\* the item signals among the signals emitted
ItemSigs(emitted) == SelectSeq(emitted, LAMBDA x : x.sig \in ItemSignals)

\* the commands that are not obsolete, in their order
Live(cmds) == SelectSeq(cmds, LAMBDA x : ~x.obsolete)

Reverse(seq) == [i \in 1..Len(seq) |-> seq[Len(seq) + 1 - i]]

\* signal x of db is the one the redo (forward) or the undo of cmd emits
Runs(cmd, x, db, forward) ==
  /\ x.db_maps = {db}
  /\ CASE cmd.kind = "add" ->
            IF forward THEN x.sig = "added" /\ x.type = cmd.type /\ x.data[db] = cmd.items
            ELSE /\ x.sig = "removed" /\ x.data[db] # {}
                 /\ \A c \in x.data[db] : c.type = cmd.type /\ c.id \in cmd.ids[cmd.type]
       [] cmd.kind = "update" ->
            /\ x.sig = "updated" /\ x.type = cmd.type
            /\ {c.id : c \in x.data[db]} \subseteq {c.id : c \in cmd.items}
       [] cmd.kind = "remove" ->
            IF forward THEN x.sig = "removed" /\ x.data[db] = cmd.undo_items
            ELSE x.sig = "added" /\ x.data[db] \subseteq cmd.undo_items
       [] OTHER -> FALSE

\* the signals are those of the commands, one each and in their order
InOrder(cmds, sigs, db, forward) ==
  /\ Len(cmds) = Len(sigs)
  /\ \A k \in 1..Len(cmds) : Runs(cmds[k], sigs[k], db, forward)

\* the signals are those of some of the commands, one each, in their order
\* (a command whose payload is empty emits nothing)
InOrderOfSome(cmds, sigs, db, forward) ==
  \E f \in [1..Len(sigs) -> 1..Len(cmds)] :
    /\ \A j, k \in 1..Len(sigs) : j < k => f[j] < f[k]
    /\ \A k \in 1..Len(sigs) : Runs(cmds[f[k]], sigs[k], db, forward)

\* the kinds and types of the children lines 265-274 make for a diff
RECURSIVE ImportOrder(_, _)
ImportOrder(diff, i) ==
  IF i > Len(diff) THEN <<>>
  ELSE (IF diff[i].to_add = {} THEN <<>> ELSE <<<<"add", diff[i].type>>>>)
       \o (IF diff[i].to_update = {} THEN <<>> ELSE <<<<"update", diff[i].type>>>>)
       \o ImportOrder(diff, i + 1)

\* the kinds and types of the children lines 404-415 make for a plan
PlanOrder(plan) ==
  (IF plan.ids_to_remove = {} THEN <<>> ELSE <<<<"remove", "none">>>>)
  \o (IF plan.items_to_add = {} THEN <<>> ELSE <<<<"add", "scenario_alternative">>>>)

KindsOf(cmds) == [k \in 1..Len(cmds) |-> <<cmds[k].kind, cmds[k].type>>]

\* C24: the children of a macro are made and run in insertion order: for
\* an import the resolver's item types in order, the additions of a type
\* before its updates, for set_scenario_alternatives the removal before the
\* addition; the signals of the operation are those of the children that
\* applied something, in that order.  Redo runs them in the same order and
\* undo in the reverse order.  An item one of these signals adds finds the
\* row it references in the store, left there or brought by an earlier one
C24_ChildrenInInsertionOrder ==
  [][\A db \in Range(lastOp'.batch) :
       (/\ ~lastOp'.raised
        /\ \A d \in Range(lastOp'.batch) : d \in DOMAIN lastOp'.oc /\ lastOp'.oc[d] = "apply") =>
         LET stk == undo_stack[db]
             sigs == SelectSeq(ItemSigs(lastOp'.emitted), LAMBDA x : db \in x.db_maps)
         IN /\ lastOp'.op \in MacroOps /\ undo_stack'[db].index = stk.index + 1 =>
                 /\ KindsOf(Pushed(db).children) =
                      (IF lastOp'.op = "import" THEN ImportOrder(lastOp'.arg, 1)
                       ELSE PlanOrder(lastOp'.arg))
                 /\ InOrder(Live(Pushed(db).children), sigs, db, TRUE)
            /\ (/\ lastOp'.op = "redo"
                /\ undo_stack'[db].index = stk.index + 1
                /\ Pushed(db).kind = "macro") =>
                 /\ KindsOf(Pushed(db).children) = KindsOf(stk.cmds[stk.index + 1].children)
                 /\ InOrder(Live(Pushed(db).children), sigs, db, TRUE)
            /\ lastOp'.op = "undo" /\ stk.cmds[stk.index].kind = "macro" =>
                 InOrderOfSome(Reverse(Live(stk.cmds[stk.index].children)), sigs, db, FALSE)
            /\ lastOp'.op \in MacroOps \cup {"redo"} =>
                 \A i \in 1..Len(sigs) : \A c \in sigs[i].data[db] :
                   sigs[i].sig = "added" /\ Parent(c.type) # "none" =>
                     \/ \E p \in store[db][Parent(c.type)] : p.id = c.ref
                     \/ \E j \in 1..(i - 1) : \E p \in sigs[j].data[db] :
                          sigs[j].sig = "added" /\ p.type = Parent(c.type) /\ p.id = c.ref]_vars

\* the undo of an import of three types: the value left first, then its
\* object, then the class
C24_Witness ==
  /\ lastOp.op = "undo" /\ ~lastOp.raised
  /\ \E db \in DbMaps :
       /\ undo_stack[db].index < Len(undo_stack[db].cmds)
       /\ Len(undo_stack[db].cmds[undo_stack[db].index + 1].children) = 3
       /\ Len(lastOp.emitted) = 3
       /\ \A i \in 1..3 : lastOp.emitted[i].sig = "removed"
       /\ \E c \in lastOp.emitted[1].data[db] : c.type = "parameter_value"
       /\ \E c \in lastOp.emitted[3].data[db] : c.type = "object_class"
(* -------------------------- export: properties ------------------------ *)
\* the export ran into a failure: a call of the file system or of a
\* serializer raised, or the destination format is none the worker knows
ExportFailed ==
  /\ lastOp.op = "export"
  /\ \/ lastOp.arg.io.err \in {"PermissionError", "OSError", "SpineDBAPIError"}
     \/ lastOp.arg.file_filter \notin {"JSON", "SQLite", "Excel"}

CallerSignals(name) == {i \in 1..Len(lastOp.emitted) : lastOp.emitted[i].sig = name}

\* C25: any failure of export_data (permission denied, an I/O error writing
\* the JSON, SQLite or spreadsheet file, an unsupported destination format) is
\* told to the caller as one error message: no exception leaves the worker,
\* and the export is not tried again (no file is announced as exported).
C25_ExportFailuresReported ==
  ExportFailed =>
    /\ ~lastOp.raised
    /\ Cardinality(CallerSignals("msg_error")) = 1
    /\ CallerSignals("file_exported") \cup CallerSignals("sqlite_file_exported") = {}

(* ----------------------- error reports: properties -------------------- *)
\* the worker's handlers that keep a db_map_error_log
LoggingOps == {"add", "update", "remove", "commit", "rollback", "import"}

\* the places of the signals named name among those the operation emitted
Places(emitted, name) == {i \in 1..Len(emitted) : emitted[i].sig = name}

\* the step's operation got an error list for db that is not empty: the
\* store rejected the row handed in (add, update), raised SpineDBAPIError
\* (remove, commit, rollback), or the resolver failed or returned errors
\* (import)
HasErrors(db) ==
  LET o == lastOp'
  IN CASE o.op = "add" -> o.oc[db] = "apply" /\ ~RowValid(store[db], o.arg, AddedRow(o.arg))
       [] o.op = "update" ->
            /\ o.oc[db] = "apply"
            /\ \A i \in Places(o.emitted, "updated") : db \notin o.emitted[i].db_maps
       [] o.op \in {"remove", "commit", "rollback"} -> o.oc[db] = "raise"
       [] o.op = "import" -> o.oc[db] = "bad" \/ SumErrors(o.arg, 1) > 0
       [] OTHER -> FALSE

\* the report of the step's operation: emitted at most once, naming with a
\* message the db_maps of the batch that have errors and no other, and emitted
\* at all only when there is one; no item of an add, an update or an import
\* is announced after it
OneReport ==
  LET o == lastOp'
      at == Places(o.emitted, "error_msg")
  IN /\ Cardinality(at) <= 1
     /\ Reported' = {db \in Range(o.batch) : HasErrors(db)}
     /\ \A i \in at :
          /\ AnyErrors(o.emitted[i].log)
          /\ o.op # "remove" =>
               \A j \in (i + 1)..Len(o.emitted) : o.emitted[j].sig \notin ItemSignals

\* C26: each batch operation of the worker tells its errors in one report
\* keyed by Connection: at most one report per operation, made after every
\* Connection of the batch was worked on, made if and only if a Connection
\* has an error list that is not empty, and with no message for a Connection
\* that succeeded
C26_OneErrorReport ==
  [][lastOp'.op \in LoggingOps => OneReport]_vars

(* ----------------------- applied rows: properties --------------------- *)
\* the rows of the step's request that the store of db accepts as the step
\* begins: a new row whose parent is there, a new value for a row that is
Acceptable(db) ==
  LET t == lastOp'.arg.type
  IN {r \in lastOp'.arg.rows :
        IF lastOp'.op = "add_items" THEN RowValid(store[db], t, r)
        ELSE \E o \in store[db][t] : o.id = r.id}

\* the store of db answered the step's request: its call and the calls
\* before it in the batch raised nothing
Answered(db) ==
  \E i \in 1..Len(lastOp'.batch) :
    /\ lastOp'.batch[i] = db
    /\ \A j \in 1..i : lastOp'.oc[lastOp'.batch[j]] = "apply"

\* the rows the store of db applied in the step: the rows it holds anew, or
\* the rows it holds under the ids and with the values of the request
Applied(db) ==
  LET t == lastOp'.arg.type
  IN IF ~Answered(db) THEN {}
     ELSE IF lastOp'.op = "add_items" THEN store'[db][t] \ store[db][t]
     ELSE {o \in store'[db][t] : \E r \in Acceptable(db) : o.id = r.id /\ o.val = r.val}

\* the items the step's signals brought for db
Notified(db) ==
  UNION {lastOp'.emitted[i].data[db] :
           i \in {j \in 1..Len(lastOp'.emitted) :
                    /\ lastOp'.emitted[j].sig \in {"added", "updated"}
                    /\ db \in lastOp'.emitted[j].db_maps}}

\* the request row an item stands for: an added item by its parent and value,
\* an updated one by its id and value
Stands(item, r) ==
  IF lastOp'.op = "add_items" THEN item.ref = r.ref /\ item.val = r.val
  ELSE item.id = r.id /\ item.val = r.val

\* C27: add_or_update_items caches and announces the items the store reports
\* as applied and no other: the rows the store accepts are applied, cached
\* and announced, a row it rejects is neither cached nor announced, and a
\* Connection none of whose rows was applied gets no added or updated signal
C27_ExactlyAppliedItems ==
  [][lastOp'.op \in {"add_items", "update_items"} =>
       \A db \in Range(lastOp'.batch) :
         LET t == lastOp'.arg.type
             new == CachedOf(cache', db) \ CachedOf(cache, db)
         IN /\ {cache_to_db(c) : c \in Notified(db)} = Applied(db)
            /\ \A c \in Notified(db) : c.type = t /\ c \in CachedOf(cache', db)
            /\ new \subseteq Notified(db)
            /\ \A r \in lastOp'.arg.rows \ Acceptable(db) :
                 \A c \in Notified(db) \cup new : ~Stands(c, r)
            /\ ~lastOp'.raised =>
                 \A r \in Acceptable(db) : \E c \in Notified(db) : Stands(c, r)
            /\ Applied(db) = {} =>
                 \A i \in 1..Len(lastOp'.emitted) : db \notin lastOp'.emitted[i].db_maps]_vars

\* a request of two rows: the store applied one and rejected the other
C27_Witness ==
  /\ lastOp.op = "add_items"
  /\ Cardinality(lastOp.arg.rows) = 2
  /\ ~lastOp.raised
  /\ \E i \in 1..Len(lastOp.emitted) :
       /\ lastOp.emitted[i].sig = "added"
       /\ lastOp.emitted[i].db_maps = {"A"}
       /\ Cardinality(lastOp.emitted[i].data["A"]) = 1
       /\ lastOp.emitted[i].data["A"] \subseteq CachedOf(cache, "A")
       /\ Cardinality(CachedOf(cache, "A")) = 2
  /\ Reported = {"A"}

(* -------------------- rejected rollback: properties ------------------- *)
\* what the manager holds for db: its cache entry, if any, and its stack
Held(c, stacks, db) == <<IF db \in DOMAIN c THEN c[db] ELSE "none", db \in DOMAIN c, stacks[db]>>

\* the step's rollback reached db: no db_map before it in the batch ended
\* the handler with a KeyError
Tried(db) ==
  \E i \in 1..Len(lastOp'.batch) :
    /\ lastOp'.batch[i] = db
    /\ \A j \in 1..(i - 1) :
         lastOp'.oc[lastOp'.batch[j]] = "raise" \/ lastOp'.batch[j] \in DOMAIN cache

\* a rollback of db that the store accepts can be made now
CanRollBack(db) ==
  ENABLED (/\ RollbackSession
           /\ lastOp'.batch = <<db>>
           /\ lastOp'.oc[db] = "apply"
           /\ db \in Announced("session_rolled_back")')

\* a commit of db that the store accepts can be made now
CanCommit(db) ==
  ENABLED (/\ CommitSession
           /\ lastOp'.batch = <<db>>
           /\ lastOp'.oc[db] = "apply"
           /\ db \in Announced("session_committed")')

\* C28: when the store rejects rollback_session for Connection A, A's cache
\* and A's CommandHistory are as they were and A is not announced as rolled
\* back; the other Connections of the request are rolled back all the same;
\* and A can be used on: a later commit of A can succeed, and so can a later
\* rollback of A when A has a cache entry to drop
C28_RollbackFailureIsolated ==
  /\ [][lastOp'.op = "rollback" =>
          \A a \in Range(lastOp'.batch) :
            lastOp'.oc[a] = "raise" /\ Tried(a) =>
              /\ Held(cache', undo_stack', a) = Held(cache, undo_stack, a)
              /\ store'[a] = store[a]
              /\ a \notin Announced("session_rolled_back")'
              /\ \A b \in Range(lastOp'.batch) \ {a} :
                   lastOp'.oc[b] = "apply" =>
                     /\ store'[b] = committed[b]
                     /\ undo_stack'[b] = clear(undo_stack[b])
                     /\ b \notin DOMAIN cache'
                     /\ b \in Announced("session_rolled_back")']_vars
  /\ [](lastOp.op = "rollback" /\ budget > 0 =>
          \A a \in Range(lastOp.batch) :
            lastOp.oc[a] = "raise" =>
              /\ CanCommit(a)
              /\ a \in DOMAIN cache => CanRollBack(a))

(* --------------------- resolver failure: properties ------------------- *)
\* the import of the step reached db: the db_map before it in the batch, if
\* any, ended the handler with no exception
Reached(db) == lastOp'.batch[1] = db \/ lastOp'.oc[lastOp'.batch[1]] # "raise"

\* what the import of data_for_import into db alone, with a store that
\* raises nothing, makes of the state as the step begins
Alone(db, data_for_import) ==
  _import_data(World, Entries(<<db>>, data_for_import), [d \in {db} |-> "apply"])

\* C29: when the resolver fails on the data of Connection A, nothing is
\* pushed on A's CommandHistory, A's cache and store are as they were, the
\* failure is reported for A, and the data of the other Connections of the
\* call are imported as they would be without A
C29_ResolverFailureIsolated ==
  [][lastOp'.op = "import" =>
       \A a \in Range(lastOp'.batch) :
         lastOp'.oc[a] = "bad" /\ Reached(a) =>
           /\ undo_stack'[a] = undo_stack[a]
           /\ Held(cache', undo_stack', a) = Held(cache, undo_stack, a)
           /\ store'[a] = store[a]
           /\ a \in Reported'
           /\ \A b \in Range(lastOp'.batch) \ {a} :
                lastOp'.oc[b] = "apply" =>
                  /\ store'[b] = Alone(b, lastOp'.arg).store[b]
                  /\ undo_stack'[b] = Alone(b, lastOp'.arg).undo_stack[b]
                  /\ Held(cache', undo_stack', b) =
                       Held(Alone(b, lastOp'.arg).cache, undo_stack', b)]_vars

\* an import into both Connections: the resolver failed on A's data, which
\* is reported, and B's data went into B's store under a macro
C29_Witness ==
  /\ lastOp.op = "import"
  /\ lastOp.batch = <<"A", "B">>
  /\ lastOp.oc = [A |-> "bad", B |-> "apply"]
  /\ "A" \in Reported
  /\ undo_stack["A"] = EmptyStack
  /\ undo_stack["B"].index = 1
  /\ undo_stack["B"].cmds[1].kind = "macro"
  /\ Len(undo_stack["B"].cmds[1].children) > 1
  /\ store["B"]["object"] # {}

(* ---------------------- children run once: properties ----------------- *)
\* the rows of type t the step's import or plan asks to add
AddsOf(t) ==
  IF lastOp'.op = "import"
  THEN UNION {lastOp'.arg[i].to_add : i \in {j \in 1..Len(lastOp'.arg) : lastOp'.arg[j].type = t}}
  ELSE IF t = "scenario_alternative" THEN lastOp'.arg.items_to_add ELSE {}

\* the rows of type t the step's import asks to update
UpdatesOf(t) ==
  IF lastOp'.op = "import"
  THEN UNION {lastOp'.arg[i].to_update :
                i \in {j \in 1..Len(lastOp'.arg) : lastOp'.arg[j].type = t}}
  ELSE {}

\* the items of type t that the step's signals named name brought for db,
\* signal by signal
Brought(db, name, t) ==
  LET sigs == SelectSeq(lastOp'.emitted,
                        LAMBDA x : x.sig = name /\ x.type = t /\ db \in x.db_maps)
  IN [k \in 1..Len(sigs) |-> sigs[k].data[db]]

\* C30: in import_data and set_scenario_alternatives every child command runs
\* exactly once: the macro goes on the stack without children, each child
\* joins it once and its redo runs once, so that no row is added twice and
\* none is updated twice (one signal at most for the rows of a type to add,
\* one for those to update, no more new rows in the store than were asked)
C30_ChildrenRunOnce ==
  [][lastOp'.op \in MacroOps /\ (\A d \in Range(lastOp'.batch) : lastOp'.oc[d] = "apply") =>
       /\ ~lastOp'.raised
       /\ \A db \in Range(lastOp'.batch) :
            /\ undo_stack'[db].index = undo_stack[db].index + 1 =>
                 Len(Pushed(db).children) =
                   Len(IF lastOp'.op = "import" THEN ImportOrder(lastOp'.arg, 1)
                       ELSE PlanOrder(lastOp'.arg))
            /\ \A t \in TypeSet :
                 /\ Cardinality({r.id : r \in store'[db][t]} \ {r.id : r \in store[db][t]})
                      <= Cardinality(AddsOf(t))
                 /\ Len(Brought(db, "added", t)) <= (IF AddsOf(t) = {} THEN 0 ELSE 1)
                 /\ Len(Brought(db, "updated", t)) <= (IF UpdatesOf(t) = {} THEN 0 ELSE 1)
                 /\ \A k \in 1..Len(Brought(db, "added", t)) :
                      Cardinality(Brought(db, "added", t)[k]) <= Cardinality(AddsOf(t))
                 /\ \A k \in 1..Len(Brought(db, "updated", t)) :
                      Cardinality(Brought(db, "updated", t)[k]) <= Cardinality(UpdatesOf(t))]_vars

\* the first operation of a run, an import of three types: the macro holds
\* three children, each table one row and each row came in one signal
C30_Witness ==
  /\ lastOp.op = "import" /\ ~lastOp.raised
  /\ budget = MaxSteps - 1
  /\ \E db \in Range(lastOp.batch) :
       /\ undo_stack[db].index = 1
       /\ Len(undo_stack[db].cmds[1].children) = 3
       /\ Cardinality({i \in 1..Len(lastOp.emitted) : lastOp.emitted[i].sig = "added"}) = 3
       /\ \A t \in {"object_class", "object", "parameter_value"} :
            Cardinality(store[db][t]) = 1

(* ----------------------- rejected removal: properties ----------------- *)
\* C33: when the store rejects remove_items for a Connection, none of the
\* Connection's items leaves the cache: after a remove request an item is
\* gone from the cache only if its row is gone from the store
C33_RejectedRemoveKeepsCache ==
  [][lastOp'.op = "remove" =>
       \A db \in Range(lastOp'.batch) :
         /\ lastOp'.oc[db] = "raise" => CachedOf(cache', db) = CachedOf(cache, db)
         /\ \A c \in CachedOf(cache, db) \ CachedOf(cache', db) :
              cache_to_db(c) \notin store'[db][c.type]]_vars

(* ------------------------ idle import: properties --------------------- *)
\* the step's import applied nothing for db: no signal brought an item of db
AppliedNothing(db) ==
  \A i \in 1..Len(lastOp'.emitted) :
    lastOp'.emitted[i].sig \in ItemSignals => db \notin lastOp'.emitted[i].db_maps

\* C34: an import that ends up applying nothing leaves the CommandHistory of
\* the Connection as it was before the call: the same commands at the same
\* position, the commands that could be redone still there to redo
C34_IdleImportKeepsHistory ==
  [][lastOp'.op = "import" =>
       \A db \in Range(lastOp'.batch) :
         AppliedNothing(db) /\ store'[db] = store[db] =>
           /\ undo_stack'[db].cmds = undo_stack[db].cmds
           /\ undo_stack'[db].index = undo_stack[db].index
           /\ canRedo(undo_stack[db]) => canRedo(undo_stack'[db])]_vars

(* ---------------------- session signals: properties ------------------- *)
\* the db_maps of the step's request whose store call (commit_session or
\* rollback_session) was made and raised nothing
Succeeded ==
  {db \in Range(lastOp'.batch) :
     lastOp'.oc[db] = "apply" /\ (lastOp'.op = "rollback" => Tried(db))}

\* the session signal of the step's operation
SessionSignalOf(op) == IF op = "commit" THEN "session_committed" ELSE "session_rolled_back"

\* C35: session_committed (session_rolled_back) is emitted at most once for a
\* commit (rollback) request, carries the Connections whose store commit
\* (rollback) succeeded and no other, and is not emitted when there is none
C35_SessionSignalExact ==
  [][lastOp'.op \in {"commit", "rollback"} =>
       LET at == Places(lastOp'.emitted, SessionSignalOf(lastOp'.op))
       IN /\ Cardinality(at) <= 1
          /\ Succeeded = {} => at = {}
          /\ Succeeded # {} => \E i \in at : lastOp'.emitted[i].db_maps = Succeeded]_vars

(* ------------------------ data_imported: properties ------------------- *)
\* C40: data_imported is emitted exactly once for an import_data request,
\* when the import of every Connection of the request is over (it is the
\* last signal of the request), also when the import failed or applied
\* nothing for some or for all Connections
C40_DataImportedOnce ==
  lastOp.op = "import" =>
    /\ Cardinality(Places(lastOp.emitted, "data_imported")) = 1
    /\ lastOp.emitted[Len(lastOp.emitted)].sig = "data_imported"

\* an import into both Connections where the resolver failed for both: the
\* error report, then data_imported
C40_Witness ==
  /\ lastOp.op = "import"
  /\ lastOp.batch = <<"A", "B">>
  /\ \A db \in DbMaps : lastOp.oc[db] = "bad"
  /\ Reported = DbMaps
  /\ Len(lastOp.emitted) = 2
  /\ lastOp.emitted[2].sig = "data_imported"

\* C39: of two get_db_map calls made by different threads, each returns the
\* mapping of its own url or the error of its own opening: never the mapping
\* of another url, never neither a mapping nor an error
C39_OwnAnswer ==
  returned.url # "None" =>
    /\ (returned.db_map = "None") # (returned.err = "None")
    /\ returned.db_map \in {"None", returned.url}
    /\ returned.err \in {"None", returned.outcome}

(* -------------------- scenario generator: properties ------------------ *)
\* a dialog is inside waiter.wait()
Waits == running[GuiThread] # <<>>

\* the waiter's trigger is connected to scenarios_added
Subscribed == "waiter" \in DOMAIN listeners

\* C31: a dialog that asked for new scenarios submits set_scenario_alternatives
\* only after the scenarios_added that answers its own add_scenarios request
\* was received, and its trigger is connected to scenarios_added exactly as
\* long as it waits
C31_AlternativesAfterAnswer ==
  /\ lastOp.op = "accept" /\ lastOp.arg.new_scenarios # {} =>
       lastOp.arg.submitted = <<"add_scenarios">>
  /\ lastOp.op = "wait_ends" =>
       /\ lastOp.arg.submitted = <<"add_scenarios", "set_scenario_alternatives">>
       /\ lastOp.arg.answered
  /\ Subscribed <=> Waits

\* C31 where no other scenarios_added comes while the dialog waits
C31_Restricted ==
  /\ lastOp.op = "accept" /\ lastOp.arg.new_scenarios # {} =>
       lastOp.arg.submitted = <<"add_scenarios">>
  /\ Subscribed <=> Waits

\* C32: a dialog accepted with an empty prefix, or whose prompt about
\* existing scenarios is cancelled, submits nothing: store, cache and
\* CommandHistory are as before, nothing is emitted and nothing waits
C32_CancelSubmitsNothing ==
  [][/\ lastOp'.op = "accept"
     /\ \/ strip(lastOp'.arg.prefix) = ""
        \/ /\ lastOp'.arg.answer = "cancel"
           /\ generated_scenario_names(lastOp'.arg.combinations) \cap lastOp'.arg.existing # {}
     => /\ lastOp'.arg.submitted = <<>>
        /\ <<store', cache', undo_stack'>> = <<store, cache, undo_stack>>
        /\ lastOp'.emitted = <<>>
        /\ ~Waits' /\ ~Subscribed']_vars

\* the prompt was cancelled for a dialog that would have added a scenario
\* and modified an existing one, on a CommandHistory that holds commands
C32_Witness ==
  /\ lastOp.op = "accept"
  /\ lastOp.arg.prefix = "p"
  /\ lastOp.arg.resolution = "CANCEL_OPERATION"
  /\ lastOp.arg.combinations = 2
  /\ lastOp.arg.existing = {1}
  /\ undo_stack[lastOp.arg.db].cmds # <<>>

\* C36: once a dialog submitted add_scenarios and waits for scenarios_added,
\* the wait ends and set_scenario_alternatives is submitted, whatever the
\* store answered to the request
C36_WaitEventuallyEnds ==
  Waits ~> (lastOp.op = "wait_ends"
            /\ lastOp.arg.submitted = <<"add_scenarios", "set_scenario_alternatives">>)

\* C36 for the waits whose trigger was called
C36_Restricted ==
  (Waits /\ running[GuiThread][1].triggered)
    ~> (lastOp.op = "wait_ends"
        /\ lastOp.arg.submitted = <<"add_scenarios", "set_scenario_alternatives">>)

\* the last step submitted set_scenario_alternatives
Requested ==
  /\ lastOp.op \in {"accept", "wait_ends"}
  /\ lastOp.arg.submitted # <<>>
  /\ lastOp.arg.submitted[Len(lastOp.arg.submitted)] = "set_scenario_alternatives"

\* the numbers of the names of the scenarios the request names
RequestedNames ==
  {lastOp.arg.listed[i].val :
     i \in {j \in 1..Len(lastOp.arg.listed) :
              \E q \in lastOp.arg.request : q.id = lastOp.arg.listed[j].id}}

\* C37: in every set_scenario_alternatives request of the dialog, scenario
\* <prefix>k is given the k-th combination, under each resolution and in
\* whatever order the editor lists the scenarios
C37_KthCombination ==
  Requested =>
    \A q \in lastOp.arg.request : \A i \in 1..Len(lastOp.arg.listed) :
      lastOp.arg.listed[i].id = q.id => q.combination = lastOp.arg.listed[i].val

\* C37 for the requests where the editor lists the scenarios by their number
\* and every generated name is to be modified
C37_Restricted ==
  /\ Requested
  /\ lastOp.arg.scenarios_to_modify = generated_scenario_names(lastOp.arg.combinations)
  /\ \A i \in 1..Len(lastOp.arg.listed) : lastOp.arg.listed[i].val = i
  => \A q \in lastOp.arg.request : \A i \in 1..Len(lastOp.arg.listed) :
       lastOp.arg.listed[i].id = q.id => q.combination = lastOp.arg.listed[i].val

\* C38: under "Keep existing" the request names no scenario that existed
\* when the dialog was accepted; under "Overwrite" it names every generated
\* name
C38_KeepAndOverwrite ==
  Requested =>
    /\ lastOp.arg.resolution = "LEAVE_AS_IS" => RequestedNames \cap lastOp.arg.existing = {}
    /\ lastOp.arg.resolution = "OVERWRITE" =>
         generated_scenario_names(lastOp.arg.combinations) \subseteq RequestedNames

\* C38 for the dialogs whose wait ended on the answer to their own request
C38_Restricted ==
  Requested /\ (lastOp.op = "wait_ends" => lastOp.arg.answered) =>
    /\ lastOp.arg.resolution = "LEAVE_AS_IS" => RequestedNames \cap lastOp.arg.existing = {}
    /\ lastOp.arg.resolution = "OVERWRITE" =>
         generated_scenario_names(lastOp.arg.combinations) \subseteq RequestedNames

====
